---- MODULE Spec2Model ----
(***************************************************************************)
(* A model of squirrel's storage back ends: the predicate engine           *)
(* (_Backend.compare), the in-memory back end (TestBackend: search, tag    *)
(* groups, PVs, snapshots), and the request side of the remote back end    *)
(* (MongoBackend.update_pv).                                               *)
(*                                                                         *)
(* Python values are tagged records [type, val]:                           *)
(*   str   a sequence of one-character strings                             *)
(*   int   an integer                                                      *)
(*   uuid  a sequence of hexadecimal digits                                *)
(*   dict  a TagSet: a function from group ids to sets of tag ids          *)
(*   tuple a sequence of tagged values                                     *)
(*   type  the name of an entry class ("PV", "Snapshot")                   *)
(* An operation that can raise returns the exception's name instead of a   *)
(* value.                                                                  *)
(***************************************************************************)
EXTENDS Integers, Sequences, FiniteSets, TLC

VARIABLES
    pvs,          \* TestBackend.pvs: list of PV
    snapshots,    \* TestBackend.snapshots: list of Snapshot
    tag_groups,   \* TestBackend.tag_groups: group id -> [name, description, tags]
    next_uuid,    \* number of uuid4() values drawn so far
    last,         \* the last back-end call: its name, arguments and outcome
    assigned,     \* history: the group ids add_tag_group has handed out
    call,         \* the pending / finished call of a pure function or search
    remote,       \* the PV documents held by the remote store
    meta_pvs,     \* TestBackend.meta_pvs: list of PV
    _tag_cache,   \* MongoBackend._tag_cache
    _last_tag_fetch, \* MongoBackend._last_tag_fetch, in ticks of the clock
    now           \* datetime.now(), in ticks of the clock

vars == <<pvs, snapshots, tag_groups, next_uuid, last, assigned, call, remote, meta_pvs,
          _tag_cache, _last_tag_fetch, now>>

(***************************************************************************)
(* Bounds of the model.                                                    *)
(***************************************************************************)
\* timedelta(minutes=1), in ticks of the clock
Minute == 2

MaxGroupId == 1
MaxTagId == 1
MaxPVs == 2
MaxSnapshots == 1
MaxTerms == 2
MaxStoredPVs == 1

GroupIds == 0..MaxGroupId
TagIds == 0..MaxTagId

(***************************************************************************)
(* Python values.                                                          *)
(***************************************************************************)
PyStr(s) == [type |-> "str", val |-> s]
PyInt(n) == [type |-> "int", val |-> n]
PyUuid(u) == [type |-> "uuid", val |-> u]
PyDict(d) == [type |-> "dict", val |-> d]
PyTuple(t) == [type |-> "tuple", val |-> t]
PyType(c) == [type |-> "type", val |-> c]
PyNone == [type |-> "NoneType", val |-> "None"]

\* The empty dict, and dict literals over one and two groups.
EmptyDict == [g \in {} |-> {}]
D1(g, ts) == [k \in {g} |-> ts]
D2(g, ts, h, us) == [k \in {g, h} |-> IF k = g THEN ts ELSE us]

\* Every TagSet over the bounded group and tag ids.
TagSets == UNION {[gs -> SUBSET TagIds] : gs \in SUBSET GroupIds}

\* Characters in their collating order.
Alphabet == <<"-", "a", "b", "c">>
Ord(c) == CHOOSE i \in 1..Len(Alphabet) : Alphabet[i] = c

\* s <= t for Python strings (lexicographic).
RECURSIVE StrLe(_, _)
StrLe(s, t) ==
    IF s = <<>> THEN TRUE
    ELSE IF t = <<>> THEN FALSE
    ELSE IF Ord(Head(s)) < Ord(Head(t)) THEN TRUE
    ELSE IF Ord(Head(s)) > Ord(Head(t)) THEN FALSE
    ELSE StrLe(Tail(s), Tail(t))

\* pattern occurs somewhere in s: re.search for a pattern of literal characters.
re_search(pattern, s) ==
    \E i \in 0..(Len(s) - Len(pattern)) :
        \A j \in 1..Len(pattern) : s[i + j] = pattern[j]

\* str(uuid): the hexadecimal digits with the groups joined by dashes.
uuid_str(u) == <<u[1], "-", u[2]>>

Min(S) == CHOOSE x \in S : \A y \in S : x <= y
Max(S) == CHOOSE x \in S : \A y \in S : y <= x

\* Python's truth value as the result of a comparison.
Bool(b) == IF b THEN "True" ELSE "False"
IsError(r) == r \in {"TypeError", "AttributeError", "ValueError", "NotImplementedError",
                     "KeyError", "IndexError", "EntryExistsError", "EntryNotFoundError",
                     "BackendError"}

\* data == target
PyEq(data, target) == data.type = target.type /\ data.val = target.val

\* dict.get(key, set())
DictGet(d, key) == IF key \in DOMAIN d THEN d[key] ELSE {}

\* data <= target (or, swapped, data >= target) for values that are not dicts.
PyLe(data, target) ==
    IF data.type = "int" /\ target.type = "int" THEN Bool(data.val <= target.val)
    ELSE IF data.type = "str" /\ target.type = "str" THEN Bool(StrLe(data.val, target.val))
    ELSE IF data.type = "uuid" /\ target.type = "uuid" THEN Bool(StrLe(data.val, target.val))
    ELSE "TypeError"

\* op == "lt"
compare_lt(data, target) ==
    IF data.type = "dict"
    THEN IF DOMAIN data.val = {} THEN "True"
         ELSE IF target.type # "dict" THEN "AttributeError"
         ELSE Bool(\A key \in DOMAIN data.val :
                       data.val[key] \subseteq DictGet(target.val, key))
    ELSE PyLe(data, target)

\* op == "gt"; iterating a target that is not a dict raises, unless it is empty.
compare_gt_own_keys(data, target) ==
    IF data.type = "dict"
    THEN IF target.type = "dict"
         THEN Bool(\A key \in DOMAIN data.val :
                       DictGet(target.val, key) \subseteq data.val[key])
         ELSE IF target.type \in {"str", "tuple"} /\ target.val = <<>> THEN "True"
         ELSE "TypeError"
    ELSE PyLe(target, data)

\* gt with lt's polarity:
compare_gt_reversed(data, target) ==
    IF data.type = "dict"
    THEN IF target.type = "dict"
         THEN Bool(\A key \in DOMAIN target.val :
                       DictGet(data.val, key) \subseteq target.val[key])
         ELSE IF target.type \in {"str", "tuple"} /\ target.val = <<>> THEN "True"
         ELSE "TypeError"
    ELSE PyLe(target, data)

compare_gt(data, target) ==
    IF data.type = "dict"
    THEN IF target.type = "dict"
         THEN Bool(\A key \in DOMAIN target.val :
                       target.val[key] \subseteq DictGet(data.val, key))
         ELSE IF target.type \in {"str", "tuple"} /\ target.val = <<>> THEN "True"
         ELSE "TypeError"
    ELSE PyLe(target, data)

\* op == "in"
compare_in(data, target) ==
    IF target.type = "tuple"
    THEN Bool(\E i \in 1..Len(target.val) : PyEq(data, target.val[i]))
    ELSE IF target.type = "str"
    THEN IF data.type = "str" THEN Bool(re_search(data.val, target.val)) ELSE "TypeError"
    ELSE IF target.type = "dict"
    THEN IF data.type = "dict" THEN "TypeError"
         ELSE Bool(data.type = "int" /\ data.val \in DOMAIN target.val)
    ELSE "TypeError"

\* op == "like"
compare_like(data, target) ==
    LET text == IF data.type = "uuid" THEN PyStr(uuid_str(data.val)) ELSE data
    IN IF target.type # "str" \/ text.type # "str" THEN "TypeError"
       ELSE Bool(re_search(target.val, text.val))

\* _Backend.compare(op, data, target)
compare(op, data, target) ==
    IF op = "eq" THEN Bool(PyEq(data, target))
    ELSE IF op = "lt" THEN compare_lt(data, target)
    ELSE IF op = "gt" THEN compare_gt(data, target)
    ELSE IF op = "in" THEN compare_in(data, target)
    ELSE IF op = "like" THEN compare_like(data, target)
    ELSE "ValueError"

(***************************************************************************)
(* TestBackend: the tag definition.  tag_groups maps a group id to the     *)
(* Python list [name, description, tags], a sequence of tagged values;     *)
(* tags maps a tag id to the tag's name.                                   *)
(***************************************************************************)
\* d[k] = v
Put(d, k, v) == [x \in (DOMAIN d) \cup {k} |-> IF x = k THEN v ELSE d[x]]

\* del d[k]
Remove(d, k) == [x \in (DOMAIN d) \ {k} |-> d[x]]

\* del list[i], i counted from 0
ListDel(list, i) == [j \in 1..(Len(list) - 1) |-> IF j <= i THEN list[j] ELSE list[j + 1]]

\* a or b, on strings
PyOr(a, b) == IF a # <<>> THEN a ELSE b

\* The id a new group gets.  Counting the groups instead of taking the maximum:
new_group_id_by_count(groups) == Cardinality(DOMAIN groups)

new_group_id(groups) == IF DOMAIN groups # {} THEN Max(DOMAIN groups) + 1 ELSE 0

\* The id a new tag gets within its group's tags.
new_tag_id(tags) == IF DOMAIN tags # {} THEN Max(DOMAIN tags) + 1 ELSE 0

\* The outcome of a call on the tag definition: the new definition and the
\* exception raised, if any (the definition is then unchanged).
Ok(groups) == [groups |-> groups, raised |-> "none"]
Raise(groups, e) == [groups |-> groups, raised |-> e]

\* _, _, tags = self.tag_groups[group_id]
Unpack(groups, group_id) ==
    IF group_id \notin DOMAIN groups THEN "KeyError"
    ELSE IF Len(groups[group_id]) # 3 THEN "ValueError"
    ELSE "none"

\* add_tag_group also returns the new group's id (ret).
add_tag_group(groups, name, description) ==
    LET group_id == new_group_id(groups)
    IN [groups |-> Put(groups, group_id,
                       <<PyStr(name), PyStr(description), PyDict(EmptyDict)>>),
        raised |-> "none", ret |-> group_id]

\* An update that stores a fresh tag mapping instead of the group's own:
update_tag_group_drops_tags(groups, group_id, name, description) ==
    IF Unpack(groups, group_id) # "none" THEN Raise(groups, Unpack(groups, group_id))
    ELSE Ok(Put(groups, group_id,
                <<PyStr(PyOr(name, groups[group_id][1].val)),
                  PyStr(PyOr(description, groups[group_id][2].val)),
                  PyDict(EmptyDict)>>))

update_tag_group(groups, group_id, name, description) ==
    IF Unpack(groups, group_id) # "none" THEN Raise(groups, Unpack(groups, group_id))
    ELSE Ok(Put(groups, group_id,
                <<PyStr(PyOr(name, groups[group_id][1].val)),
                  PyStr(PyOr(description, groups[group_id][2].val)),
                  groups[group_id][3]>>))

delete_tag_group(groups, group_id) ==
    IF group_id \notin DOMAIN groups THEN Raise(groups, "KeyError")
    ELSE Ok(Remove(groups, group_id))

add_tag_to_group(groups, group_id, name) ==
    IF Unpack(groups, group_id) # "none" THEN Raise(groups, Unpack(groups, group_id))
    ELSE LET tags == groups[group_id][3].val
         IN Ok(Put(groups, group_id,
                   [groups[group_id] EXCEPT
                        ![3] = PyDict(Put(tags, new_tag_id(tags), name))]))

update_tag_in_group(groups, group_id, tag_id, name) ==
    IF Unpack(groups, group_id) # "none" THEN Raise(groups, Unpack(groups, group_id))
    ELSE LET tags == groups[group_id][3].val
         IN IF tag_id \notin DOMAIN tags THEN Raise(groups, "KeyError")
            ELSE Ok(Put(groups, group_id,
                        [groups[group_id] EXCEPT
                             ![3] = PyDict(Put(tags, tag_id, PyOr(name, tags[tag_id])))]))

\* del self.tag_groups[group_id][tag_id]: tag_id indexes the group's list.
delete_tag_from_group(groups, group_id, tag_id) ==
    IF group_id \notin DOMAIN groups THEN Raise(groups, "KeyError")
    ELSE IF tag_id >= Len(groups[group_id]) THEN Raise(groups, "IndexError")
    ELSE Ok(Put(groups, group_id, ListDel(groups[group_id], tag_id)))

(***************************************************************************)
(* The predicate engine called on its own: the inputs are drawn when the   *)
(* call is made, and the step evaluates compare.                           *)
(***************************************************************************)
Ops == {"eq", "lt", "gt", "in", "like"}

\* Strings and uuids the calls draw from.
SampleStrs == {<<>>, <<"a">>, <<"a", "b">>, <<"a", "-", "b">>}
SampleUuids == {<<"a", "b">>, <<"b", "a">>}

CompareValues ==
    {PyDict(t) : t \in TagSets}
    \cup {PyStr(s) : s \in SampleStrs}
    \cup {PyUuid(u) : u \in SampleUuids}
    \cup {PyInt(n) : n \in 0..MaxTagId}
    \cup {PyTuple(<<>>), PyTuple(<<PyStr(<<"a">>), PyUuid(<<"a", "b">>)>>)}

NoCall == [fn |-> "none", pc |-> "done"]
NoLast == [op |-> "none", gid |-> -1, tid |-> -1, entry |-> PyNone, result |-> "ok"]

\* The state of a TestBackend() and of everything else before any call.
Idle ==
    /\ pvs = <<>>
    /\ snapshots = <<>>
    /\ tag_groups = EmptyDict
    /\ next_uuid = 0
    /\ last = NoLast
    /\ assigned = {}
    /\ remote = EmptyDict
    /\ _tag_cache = EmptyDict
    /\ _last_tag_fetch = 0 - Minute
    /\ now = 0
    /\ meta_pvs = <<>>

InitCompare ==
    /\ pvs = <<>>
    /\ snapshots = <<>>
    /\ tag_groups = EmptyDict
    /\ next_uuid = 0
    /\ last = NoLast
    /\ assigned = {}
    /\ remote = EmptyDict
    /\ _tag_cache = EmptyDict
    /\ _last_tag_fetch = 0 - Minute
    /\ now = 0
    /\ meta_pvs = <<>>
    /\ \E op \in Ops \cup {"near"}, data \in CompareValues, target \in CompareValues :
           call = [fn |-> "compare", pc |-> "call", op |-> op, data |-> data,
                   target |-> target, result |-> "pending"]

Compare ==
    /\ call.fn = "compare" /\ call.pc = "call"
    /\ call' = [call EXCEPT !.pc = "done",
                            !.result = compare(call.op, call.data, call.target)]
    /\ UNCHANGED <<pvs, snapshots, tag_groups, next_uuid, last, assigned, remote, meta_pvs,
                 _tag_cache, _last_tag_fetch, now>>

NextCompare == Compare

SpecCompare == InitCompare /\ [][NextCompare]_vars

(***************************************************************************)
(* Entries.  Every attribute of an entry holds a tagged Python value; cls  *)
(* is the entry's class and is no attribute.                               *)
(***************************************************************************)
HexDigits == <<"a", "b", "c">>

\* The n-th value uuid4() returns: all of them differ.
uuid4(n) == <<HexDigits[((n \div 3) % 3) + 1], HexDigits[(n % 3) + 1]>>

\* A Python list, and EpicsData(data=...).
PyList(l) == [type |-> "list", val |-> l]
EpicsData(data) == [type |-> "EpicsData", val |-> data]

\* PV(uuid=..., description=..., tags=..., abs_tolerance=...)
PV(uuid, description, tags, abs_tolerance) ==
    [cls |-> "PV", uuid |-> PyUuid(uuid), description |-> PyStr(description),
     tags |-> tags, abs_tolerance |-> PyInt(abs_tolerance),
     setpoint |-> PyStr(<<>>), readback |-> PyStr(<<>>),
     setpoint_data |-> EpicsData(PyNone), readback_data |-> EpicsData(PyNone)]

\* Snapshot(uuid=..., description=..., title=...)
Snapshot(uuid, description, title) ==
    [cls |-> "Snapshot", uuid |-> PyUuid(uuid), description |-> PyStr(description),
     title |-> PyStr(title), pvs |-> PyList(<<>>), meta_pvs |-> PyList(<<>>)]

\* hasattr(entry, attr)
HasAttr(entry, attr) == attr \in (DOMAIN entry) \ {"cls"}

\* isinstance(entry, target): target is a class or a tuple of classes.
isinstance(entry, target) ==
    IF target.type = "type" THEN Bool(entry.cls = target.val)
    ELSE IF target.type = "tuple"
    THEN LET hits == {i \in 1..Len(target.val) :
                         target.val[i].type = "type" /\ target.val[i].val = entry.cls}
             bad == {i \in 1..Len(target.val) : target.val[i].type # "type"}
         IN IF bad # {} /\ (hits = {} \/ Min(bad) < Min(hits)) THEN "TypeError"
            ELSE Bool(hits # {})
    ELSE "TypeError"

(***************************************************************************)
(* TestBackend.search                                                      *)
(***************************************************************************)
\* One term's entry in `conditions` for one entry, or the exception that
\* leaves the loop.  A missing attribute is skipped instead of counted false:
Condition_missing_passes(entry, term) ==
    IF term.attr = "entry_type" THEN isinstance(entry, term.target)
    ELSE IF ~HasAttr(entry, term.attr) THEN "True"
    ELSE LET r == compare(term.op, entry[term.attr], term.target)
         IN IF r = "AttributeError" THEN "False" ELSE r

Condition(entry, term) ==
    IF term.attr = "entry_type" THEN isinstance(entry, term.target)
    ELSE IF ~HasAttr(entry, term.attr) THEN "False"
    ELSE LET r == compare(term.op, entry[term.attr], term.target)
         IN IF r = "AttributeError" THEN "False" ELSE r

\* The generator run to its end from entry i on: what it yields, and the
\* exception that ends it, if any.
RECURSIVE search_from(_, _, _)
search_from(entries, search_terms, i) ==
    IF i > Len(entries) THEN [yielded |-> <<>>, raised |-> "none"]
    ELSE LET conditions == [k \in 1..Len(search_terms) |->
                                Condition(entries[i], search_terms[k])]
             errors == {k \in 1..Len(search_terms) : IsError(conditions[k])}
         IN IF errors # {}
            THEN [yielded |-> <<>>, raised |-> conditions[Min(errors)]]
            ELSE LET rest == search_from(entries, search_terms, i + 1)
                 IN IF \A k \in 1..Len(search_terms) : conditions[k] = "True"
                    THEN [yielded |-> <<entries[i]>> \o rest.yielded,
                          raised |-> rest.raised]
                    ELSE rest

search(search_terms) == search_from(pvs \o snapshots, search_terms, 1)

(***************************************************************************)
(* search called on a back end constructed with some content,              *)
(* TestBackend(pvs=..., snapshots=...).                                    *)
(***************************************************************************)
Term(attr, op, target) == [attr |-> attr, op |-> op, target |-> target]

\* (description, tags) of the PVs a back end is constructed with.
SamplePVFields ==
    { <<<<"a">>, PyDict(D1(0, {0}))>>,
      <<<<"a", "b">>, PyDict(D1(0, {0, 1}))>>,
      <<<<"a">>, PyDict(EmptyDict)>>,
      <<<<"a", "b">>, PyDict(D1(1, {0}))>>,
      <<<<"a">>, PyNone>>,
      <<<<"a", "b">>, PyDict(D1(0, {0}))>> }

SampleTitles == {<<"a">>, <<"b">>}

SampleTerms ==
    { Term("entry_type", "eq", PyType("PV")),
      Term("entry_type", "eq", PyType("Snapshot")),
      Term("entry_type", "in", PyTuple(<<PyType("Snapshot"), PyType("PV")>>)),
      Term("description", "eq", PyStr(<<"a">>)),
      Term("description", "like", PyStr(<<"b">>)),
      Term("description", "lt", PyInt(0)),
      Term("description", "near", PyInt(0)),
      Term("entry_type", "near", PyType("PV")),
      Term("title", "eq", PyStr(<<"a">>)),
      Term("uuid", "like", PyStr(<<"a", "-">>)),
      Term("ancestor", "eq", PyUuid(<<"a", "a">>)),
      Term("tags", "gt", PyDict(EmptyDict)),
      Term("tags", "gt", PyDict(D1(0, {0}))),
      Term("tags", "gt", PyDict(D1(0, {0, 1}))),
      Term("tags", "lt", PyDict(D1(0, {0}))),
      Term("tags", "lt", PyStr(<<"a">>)) }

\* Sequences over S of length at most n.
SeqsUpTo(S, n) == UNION {[1..k -> S] : k \in 0..n}

InitSearch ==
    /\ \E fields \in SeqsUpTo(SamplePVFields, MaxPVs),
          titles \in SeqsUpTo(SampleTitles, MaxSnapshots) :
           /\ pvs = [i \in 1..Len(fields) |->
                         PV(uuid4(i), fields[i][1], fields[i][2], 0)]
           /\ snapshots = [j \in 1..Len(titles) |->
                               Snapshot(uuid4(Len(fields) + j), <<"a">>, titles[j])]
           /\ next_uuid = Len(fields) + Len(titles)
    /\ tag_groups = EmptyDict
    /\ last = NoLast
    /\ assigned = {}
    /\ remote = EmptyDict
    /\ _tag_cache = EmptyDict
    /\ _last_tag_fetch = 0 - Minute
    /\ now = 0
    /\ meta_pvs = <<>>
    /\ \E terms \in SeqsUpTo(SampleTerms, MaxTerms) :
           call = [fn |-> "search", pc |-> "call", terms |-> terms,
                   result |-> "pending"]

Search ==
    /\ call.fn = "search" /\ call.pc = "call"
    /\ call' = [call EXCEPT !.pc = "done", !.result = search(call.terms)]
    /\ UNCHANGED <<pvs, snapshots, tag_groups, next_uuid, last, assigned, remote, meta_pvs,
                 _tag_cache, _last_tag_fetch, now>>

NextSearch == Search

SpecSearch == InitSearch /\ [][NextSearch]_vars

(***************************************************************************)
(* TestBackend as a state machine: a back end constructed empty,           *)
(* TestBackend(), and the calls made on it.                                *)
(***************************************************************************)
\* _Backend's entry methods, which TestBackend inherits: each raises.
get_entry(meta_id) == [raised |-> "NotImplementedError", value |-> PyNone]
save_entry(entry) == "NotImplementedError"
delete_entry(entry) == "NotImplementedError"
update_entry(entry) == "NotImplementedError"

\* The record of a call: its name, the group and tag it addressed or created,
\* the entry passed, and "ok" or the exception raised.
Called(op, gid, tid, entry, result) ==
    [op |-> op, gid |-> gid, tid |-> tid, entry |-> entry, result |-> result]

Outcome(r) == IF r.raised = "none" THEN "ok" ELSE r.raised

\* Arguments the calls draw from.
NameArgs == {<<>>, <<"b">>}
AddPvTags == {PyNone, PyDict(D1(0, {0})), PyDict(D1(1, {1}))}
SampleTagDefs ==
    { EmptyDict,
      D1(0, <<PyStr(<<"a">>), PyStr(<<>>),
              PyDict([t \in {0, 1} |-> IF t = 0 THEN <<"a">> ELSE <<"b">>])>>) }

\* An entry the caller has made and not stored.
UnsavedUuid == <<"c", "c">>
UnsavedEntry == PV(UnsavedUuid, <<"a">>, PyNone, 0)

\* The stored entries, copies of them the caller has edited, and a new entry.
CandidateEntries ==
    LET stored == {(pvs \o snapshots)[i] : i \in 1..(Len(pvs) + Len(snapshots))}
    IN stored
       \cup {[e EXCEPT !.description = PyStr(<<"b">>)] : e \in stored}
       \cup {UnsavedEntry}

Init ==
    /\ Idle
    /\ call = NoCall

SetTags ==
    \E tags \in SampleTagDefs :
        /\ tag_groups' = tags
        /\ last' = Called("set_tags", -1, -1, PyNone, "ok")
        /\ UNCHANGED <<pvs, snapshots, next_uuid, assigned, call, remote, meta_pvs,
                 _tag_cache, _last_tag_fetch, now>>

AddTagGroup ==
    \E name \in {<<"a">>}, description \in {<<>>} :
        LET r == add_tag_group(tag_groups, name, description)
        IN /\ r.ret <= MaxGroupId
           /\ tag_groups' = r.groups
           /\ assigned' = assigned \cup {r.ret}
           /\ last' = Called("add_tag_group", r.ret, -1, PyNone, "ok")
           /\ UNCHANGED <<pvs, snapshots, next_uuid, call, remote, meta_pvs,
                 _tag_cache, _last_tag_fetch, now>>

UpdateTagGroup ==
    \E group_id \in GroupIds, name \in NameArgs, description \in NameArgs :
        LET r == update_tag_group(tag_groups, group_id, name, description)
        IN /\ tag_groups' = r.groups
           /\ last' = Called("update_tag_group", group_id, -1, PyNone, Outcome(r))
           /\ UNCHANGED <<pvs, snapshots, next_uuid, assigned, call, remote, meta_pvs,
                 _tag_cache, _last_tag_fetch, now>>

DeleteTagGroup ==
    \E group_id \in GroupIds :
        LET r == delete_tag_group(tag_groups, group_id)
        IN /\ tag_groups' = r.groups
           /\ last' = Called("delete_tag_group", group_id, -1, PyNone, Outcome(r))
           /\ UNCHANGED <<pvs, snapshots, next_uuid, assigned, call, remote, meta_pvs,
                 _tag_cache, _last_tag_fetch, now>>

AddTagToGroup ==
    \E group_id \in GroupIds, name \in {<<"a">>} :
        LET r == add_tag_to_group(tag_groups, group_id, name)
            created == IF r.raised # "none" THEN {}
                       ELSE (DOMAIN r.groups[group_id][3].val)
                                \ (DOMAIN tag_groups[group_id][3].val)
        IN /\ \A t \in created : t <= MaxTagId
           /\ tag_groups' = r.groups
           /\ last' = Called("add_tag_to_group", group_id,
                             IF created = {} THEN -1 ELSE Max(created),
                             PyNone, Outcome(r))
           /\ UNCHANGED <<pvs, snapshots, next_uuid, assigned, call, remote, meta_pvs,
                 _tag_cache, _last_tag_fetch, now>>

UpdateTagInGroup ==
    \E group_id \in GroupIds, tag_id \in TagIds, name \in NameArgs :
        LET r == update_tag_in_group(tag_groups, group_id, tag_id, name)
        IN /\ tag_groups' = r.groups
           /\ last' = Called("update_tag_in_group", group_id, tag_id, PyNone, Outcome(r))
           /\ UNCHANGED <<pvs, snapshots, next_uuid, assigned, call, remote, meta_pvs,
                 _tag_cache, _last_tag_fetch, now>>

DeleteTagFromGroup ==
    \E group_id \in GroupIds, tag_id \in TagIds :
        LET r == delete_tag_from_group(tag_groups, group_id, tag_id)
        IN /\ tag_groups' = r.groups
           /\ last' = Called("delete_tag_from_group", group_id, tag_id, PyNone,
                             Outcome(r))
           /\ UNCHANGED <<pvs, snapshots, next_uuid, assigned, call, remote, meta_pvs,
                 _tag_cache, _last_tag_fetch, now>>

\* add_pv: a PV with a new uuid is appended; its tags are not looked at.
AddPv ==
    \E tags \in AddPvTags :
        LET pv == PV(uuid4(next_uuid), <<"a">>, tags, 0)
        IN /\ Len(pvs) < MaxStoredPVs
           /\ pvs' = Append(pvs, pv)
           /\ next_uuid' = next_uuid + 1
           /\ last' = Called("add_pv", -1, -1, pv, "ok")
           /\ UNCHANGED <<snapshots, tag_groups, assigned, call, remote, meta_pvs,
                 _tag_cache, _last_tag_fetch, now>>

\* add_snapshot: the caller's Snapshot is appended.
AddSnapshot ==
    LET snapshot == Snapshot(uuid4(next_uuid), <<"a">>, <<"a">>)
    IN /\ Len(snapshots) < MaxSnapshots
       /\ snapshots' = Append(snapshots, snapshot)
       /\ next_uuid' = next_uuid + 1
       /\ last' = Called("add_snapshot", -1, -1, snapshot, "ok")
       /\ UNCHANGED <<pvs, tag_groups, assigned, call, remote, meta_pvs,
                 _tag_cache, _last_tag_fetch, now>>

GetEntry ==
    \E entry \in CandidateEntries :
        /\ last' = Called("get_entry", -1, -1, entry, get_entry(entry.uuid).raised)
        /\ UNCHANGED <<pvs, snapshots, tag_groups, next_uuid, assigned, call, remote, meta_pvs,
                 _tag_cache, _last_tag_fetch, now>>

SaveEntry ==
    \E entry \in CandidateEntries :
        /\ last' = Called("save_entry", -1, -1, entry, save_entry(entry))
        /\ UNCHANGED <<pvs, snapshots, tag_groups, next_uuid, assigned, call, remote, meta_pvs,
                 _tag_cache, _last_tag_fetch, now>>

DeleteEntry ==
    \E entry \in CandidateEntries :
        /\ last' = Called("delete_entry", -1, -1, entry, delete_entry(entry))
        /\ UNCHANGED <<pvs, snapshots, tag_groups, next_uuid, assigned, call, remote, meta_pvs,
                 _tag_cache, _last_tag_fetch, now>>

UpdateEntry ==
    \E entry \in CandidateEntries :
        /\ last' = Called("update_entry", -1, -1, entry, update_entry(entry))
        /\ UNCHANGED <<pvs, snapshots, tag_groups, next_uuid, assigned, call, remote, meta_pvs,
                 _tag_cache, _last_tag_fetch, now>>

Next ==
    \/ SetTags
    \/ AddTagGroup
    \/ UpdateTagGroup
    \/ DeleteTagGroup
    \/ AddTagToGroup
    \/ UpdateTagInGroup
    \/ DeleteTagFromGroup
    \/ AddPv

Spec == Init /\ [][Next]_vars

\* The calls that add, update and delete tag groups and tags, and add_pv; the
\* tag definition is never replaced wholesale.
NextTagOps ==
    \/ AddTagGroup
    \/ UpdateTagGroup
    \/ DeleteTagGroup
    \/ AddTagToGroup
    \/ UpdateTagInGroup
    \/ DeleteTagFromGroup
    \/ AddPv

SpecTagOps == Init /\ [][NextTagOps]_vars

\* The calls that store and look up entries, on a back end with no tags.
NextEntries ==
    \/ AddPv
    \/ AddSnapshot
    \/ GetEntry
    \/ SaveEntry
    \/ DeleteEntry
    \/ UpdateEntry

SpecEntries == Init /\ [][NextEntries]_vars

(***************************************************************************)
(* MongoBackend.update_pv and the remote store it talks to.  The store     *)
(* holds one document per PV id; a request is answered with a status code. *)
(***************************************************************************)
MaxRemotePVs == 1

\* The elements of a set of integers in ascending order.
RECURSIVE Ascending(_)
Ascending(S) == IF S = {} THEN <<>> ELSE <<Min(S)>> \o Ascending(S \ {Min(S)})

\* [tag for group in tags.values() for tag in group]
RECURSIVE pack_groups(_, _)
pack_groups(tags, groups) ==
    IF groups = <<>> THEN <<>>
    ELSE Ascending(tags[Head(groups)]) \o pack_groups(tags, Tail(groups))

_pack_tags(tags) == pack_groups(tags, Ascending(DOMAIN tags))

\* The arguments of update_pv other than pv_id; "" and None are the defaults.
UpdateArgs(setpoint, readback, description, device, tags, abs_tolerance, rel_tolerance) ==
    [setpoint |-> setpoint, readback |-> readback, description |-> description,
     device |-> device, tags |-> tags, abs_tolerance |-> abs_tolerance,
     rel_tolerance |-> rel_tolerance]

NoArgs == UpdateArgs(<<>>, <<>>, <<>>, <<>>, PyNone, PyNone, PyNone)

\* The JSON body update_pv sends: a key for every argument that was passed.
update_pv_body(a) ==
    LET keys == {"readOnly"}
            \cup (IF a.setpoint # <<>> THEN {"setpointAddress"} ELSE {})
            \cup (IF a.readback # <<>> THEN {"readbackAddress"} ELSE {})
            \cup (IF a.description # <<>> THEN {"description"} ELSE {})
            \cup (IF a.device # <<>> THEN {"device"} ELSE {})
            \cup (IF a.tags.type = "dict" /\ DOMAIN a.tags.val # {} THEN {"tags"} ELSE {})
            \cup (IF a.abs_tolerance.type # "NoneType" THEN {"absTolerance"} ELSE {})
            \cup (IF a.rel_tolerance.type # "NoneType" THEN {"relTolerance"} ELSE {})
    IN [k \in keys |->
            CASE k = "setpointAddress" -> a.setpoint
              [] k = "readbackAddress" -> a.readback
              [] k = "description" -> a.description
              [] k = "device" -> a.device
              [] k = "tags" -> _pack_tags(a.tags.val)
              [] k = "absTolerance" -> a.abs_tolerance.val
              [] k = "relTolerance" -> a.rel_tolerance.val
              [] k = "readOnly" -> FALSE]

\* The JSON body add_pv sends.
add_pv_body(setpoint, readback, description, device, tags, abs_tolerance, rel_tolerance) ==
    [k \in {"setpointAddress", "readbackAddress", "description", "device", "tags",
            "absTolerance", "relTolerance", "readOnly"} |->
        CASE k = "setpointAddress" -> setpoint
          [] k = "readbackAddress" -> readback
          [] k = "description" -> description
          [] k = "device" -> device
          [] k = "tags" -> IF tags.type = "dict" /\ DOMAIN tags.val # {}
                           THEN _pack_tags(tags.val) ELSE <<>>
          [] k = "absTolerance" -> abs_tolerance
          [] k = "relTolerance" -> rel_tolerance
          [] k = "readOnly" -> FALSE]

\* A document with the body's fields written over it.
Merge(doc, body) ==
    [k \in (DOMAIN doc) \cup (DOMAIN body) |-> IF k \in DOMAIN body THEN body[k] ELSE doc[k]]

\* POST /v1/pvs: the store creates a document under a new id.
ServerPost(store, body) ==
    LET id == IF DOMAIN store = {} THEN 1 ELSE Max(DOMAIN store) + 1
    IN [store |-> Put(store, id, body), status |-> 200]

\* PUT /v1/pvs/{pv_id}: the fields passed are updated, the others are not
\* affected; an unknown id is answered with 404.
ServerPut(store, pv_id, body) ==
    IF pv_id \notin DOMAIN store THEN [store |-> store, status |-> 404]
    ELSE [store |-> Put(store, pv_id, Merge(store[pv_id], body)), status |-> 200]

\* _raise_for_status(response)
_raise_for_status(status) == IF status >= 400 THEN "BackendError" ELSE "none"

\* MongoBackend.add_pv, as far as the store is concerned.
mongo_add_pv(store, setpoint, readback, description, device, tags, abs_tolerance, rel_tolerance) ==
    LET r == ServerPost(store, add_pv_body(setpoint, readback, description, device,
                                            tags, abs_tolerance, rel_tolerance))
    IN [store |-> r.store, raised |-> _raise_for_status(r.status)]

\* An update whose tags are added to the stored tags instead of replacing them:
update_pv_appends_tags(store, pv_id, a) ==
    LET body == update_pv_body(a)
        sent == IF pv_id \in DOMAIN store /\ "tags" \in DOMAIN body
                THEN [body EXCEPT !["tags"] = store[pv_id]["tags"] \o @]
                ELSE body
        r == ServerPut(store, pv_id, sent)
    IN [store |-> r.store, raised |-> _raise_for_status(r.status)]

\* MongoBackend.update_pv(pv_id, ...)
update_pv(store, pv_id, a) ==
    LET r == ServerPut(store, pv_id, update_pv_body(a))
    IN [store |-> r.store, raised |-> _raise_for_status(r.status)]

\* The record of a call on the remote back end; repeat says that the call before
\* it was the same call with the same arguments.
CalledRemote(op, pv_id, args, entry, result) ==
    [op |-> op, pv_id |-> pv_id, args |-> args, entry |-> entry, result |-> result,
     repeat |-> /\ last.op = op /\ last.pv_id = pv_id
                /\ last.args = args /\ last.entry = entry]

\* Argument lists of update_pv: nothing passed, one argument passed, all passed.
SampleUpdateArgs ==
    { NoArgs,
      [NoArgs EXCEPT !.setpoint = <<"b">>],
      [NoArgs EXCEPT !.readback = <<"b">>],
      [NoArgs EXCEPT !.description = <<"b">>],
      [NoArgs EXCEPT !.device = <<"b">>],
      [NoArgs EXCEPT !.tags = PyDict(EmptyDict)],
      [NoArgs EXCEPT !.tags = PyDict(D2(0, {1}, 1, {0}))],
      [NoArgs EXCEPT !.abs_tolerance = PyInt(1)],
      [NoArgs EXCEPT !.rel_tolerance = PyInt(1)],
      UpdateArgs(<<"b">>, <<"b">>, <<"b">>, <<"b">>, PyDict(D1(0, {0})),
                 PyInt(0), PyInt(0)) }

\* The entries update_entry is called with.
SampleUpdateEntries == {UnsavedEntry, [UnsavedEntry EXCEPT !.description = PyStr(<<"b">>)]}

InitMongo ==
    /\ pvs = <<>>
    /\ snapshots = <<>>
    /\ tag_groups = EmptyDict
    /\ next_uuid = 0
    /\ assigned = {}
    /\ call = NoCall
    /\ remote = EmptyDict
    /\ _tag_cache = EmptyDict
    /\ _last_tag_fetch = 0 - Minute
    /\ now = 0
    /\ meta_pvs = <<>>
    /\ last = [op |-> "none", pv_id |-> 0, args |-> NoArgs, entry |-> PyNone,
               result |-> "ok", repeat |-> FALSE]

MongoAddPv ==
    LET r == mongo_add_pv(remote, <<"a">>, <<>>, <<"a">>, <<>>, PyNone, 0, 0)
    IN /\ Cardinality(DOMAIN remote) < MaxRemotePVs
       /\ remote' = r.store
       /\ last' = CalledRemote("add_pv", 0, NoArgs, PyNone, Outcome(r))
       /\ UNCHANGED <<pvs, snapshots, tag_groups, next_uuid, assigned, call, meta_pvs,
                 _tag_cache, _last_tag_fetch, now>>

MongoUpdatePv ==
    \E pv_id \in 1..(MaxRemotePVs + 1), a \in SampleUpdateArgs :
        LET r == update_pv(remote, pv_id, a)
        IN /\ remote' = r.store
           /\ last' = CalledRemote("update_pv", pv_id, a, PyNone, Outcome(r))
           /\ UNCHANGED <<pvs, snapshots, tag_groups, next_uuid, assigned, call, meta_pvs,
                 _tag_cache, _last_tag_fetch, now>>

\* MongoBackend inherits update_entry from _Backend.
MongoUpdateEntry ==
    \E entry \in SampleUpdateEntries :
        /\ last' = CalledRemote("update_entry", 0, NoArgs, entry, update_entry(entry))
        /\ UNCHANGED <<pvs, snapshots, tag_groups, next_uuid, assigned, call, remote, meta_pvs,
                 _tag_cache, _last_tag_fetch, now>>

NextMongo ==
    \/ MongoAddPv
    \/ MongoUpdatePv
    \/ MongoUpdateEntry

SpecMongo == InitMongo /\ [][NextMongo]_vars

(***************************************************************************)
(* MongoBackend.search.  pvs and snapshots are here the entries the remote *)
(* store holds, as get_all_pvs() and get_snapshots() return them.          *)
(***************************************************************************)
\* The value of `entries` after the first loop has seen k terms.
RECURSIVE mongo_entries(_, _)
mongo_entries(search_terms, k) ==
    IF k = 0 THEN <<>>
    ELSE IF search_terms[k].attr = "entry_type"
    THEN IF search_terms[k].target = PyType("Snapshot") THEN snapshots ELSE pvs
    ELSE mongo_entries(search_terms, k - 1)

\* One term's entry in `conditions`, "pass" for a term that appends nothing, or
\* the exception that leaves the loop.
mongo_Condition(entry, term) ==
    IF term.attr = "entry_type" THEN isinstance(entry, term.target)
    ELSE IF term.attr = "ancestor" THEN "pass"
    ELSE IF ~HasAttr(entry, term.attr) THEN "False"
    ELSE LET r == compare(term.op, entry[term.attr], term.target)
         IN IF r = "AttributeError" THEN "False" ELSE r

\* The second loop from entry i on: the list `matching`, or the exception.
RECURSIVE mongo_matching(_, _, _)
mongo_matching(entries, search_terms, i) ==
    IF i > Len(entries) THEN [yielded |-> <<>>, raised |-> "none"]
    ELSE LET conditions == [k \in 1..Len(search_terms) |->
                                mongo_Condition(entries[i], search_terms[k])]
             errors == {k \in 1..Len(search_terms) : IsError(conditions[k])}
         IN IF errors # {}
            THEN [yielded |-> <<>>, raised |-> conditions[Min(errors)]]
            ELSE LET rest == mongo_matching(entries, search_terms, i + 1)
                 IN IF rest.raised # "none" THEN rest
                    ELSE IF \A k \in 1..Len(search_terms) :
                                conditions[k] \in {"True", "pass"}
                    THEN [yielded |-> <<entries[i]>> \o rest.yielded, raised |-> "none"]
                    ELSE rest

\* MongoBackend.search(*search_terms)
mongo_search(search_terms) ==
    mongo_matching(mongo_entries(search_terms, Len(search_terms)), search_terms, 1)

InitMongoSearch ==
    /\ \E fields \in SeqsUpTo(SamplePVFields, MaxPVs),
          titles \in SeqsUpTo(SampleTitles, MaxSnapshots) :
           /\ pvs = [i \in 1..Len(fields) |->
                         PV(uuid4(i), fields[i][1], fields[i][2], 0)]
           /\ snapshots = [j \in 1..Len(titles) |->
                               Snapshot(uuid4(Len(fields) + j), <<"a">>, titles[j])]
           /\ next_uuid = Len(fields) + Len(titles)
    /\ tag_groups = EmptyDict
    /\ last = NoLast
    /\ assigned = {}
    /\ remote = EmptyDict
    /\ _tag_cache = EmptyDict
    /\ _last_tag_fetch = 0 - Minute
    /\ now = 0
    /\ meta_pvs = <<>>
    /\ \E terms \in SeqsUpTo(SampleTerms, MaxTerms) :
           call = [fn |-> "mongo_search", pc |-> "call", terms |-> terms,
                   result |-> "pending"]

MongoSearch ==
    /\ call.fn = "mongo_search" /\ call.pc = "call"
    /\ call' = [call EXCEPT !.pc = "done", !.result = mongo_search(call.terms)]
    /\ UNCHANGED <<pvs, snapshots, tag_groups, next_uuid, last, assigned, remote, meta_pvs,
                 _tag_cache, _last_tag_fetch, now>>

NextMongoSearch == MongoSearch

SpecMongoSearch == InitMongoSearch /\ [][NextMongoSearch]_vars

(***************************************************************************)
(* Client.search: the terms it hands to the back end.                      *)
(***************************************************************************)
MaxClientTerms == 2

\* upper with the relative tolerance left out:
upper_abs_only(target, rel_tol, abs_tol) == target + abs_tol

\* lower = target - target * rel_tol - abs_tol
lower(target, rel_tol, abs_tol) == target - target * rel_tol - abs_tol

\* upper = target + target * rel_tol + abs_tol
upper(target, rel_tol, abs_tol) == target + target * rel_tol + abs_tol

\* target, rel_tol, abs_tol = search_term.value
unpack3(value) ==
    IF value.type # "tuple" THEN "TypeError"
    ELSE IF Len(value.val) # 3 THEN "ValueError"
    ELSE "none"

\* The loop of Client.search from term i on: new_search_terms, or the
\* exception that ends the call before the back end is reached.
RECURSIVE new_search_terms(_, _)
new_search_terms(post, i) ==
    IF i > Len(post) THEN [terms |-> <<>>, raised |-> "none"]
    ELSE LET search_term == post[i]
             rest == new_search_terms(post, i + 1)
         IN IF search_term.op = "isclose"
            THEN IF unpack3(search_term.target) # "none"
                 THEN [terms |-> <<>>, raised |-> unpack3(search_term.target)]
                 ELSE IF rest.raised # "none" THEN rest
                 ELSE LET v == search_term.target.val
                      IN [terms |->
                              << Term(search_term.attr, "gt",
                                      PyInt(lower(v[1].val, v[2].val, v[3].val))),
                                 Term(search_term.attr, "lt",
                                      PyInt(upper(v[1].val, v[2].val, v[3].val))) >>
                              \o rest.terms,
                          raised |-> "none"]
            ELSE IF rest.raised # "none" THEN rest
            ELSE [terms |-> <<search_term>> \o rest.terms, raised |-> "none"]

\* Client.search(*post): the call made on the back end and what it yields.
client_search(post) ==
    LET r == new_search_terms(post, 1)
    IN IF r.raised # "none" THEN [handed |-> <<>>, called |-> FALSE, raised |-> r.raised]
       ELSE [handed |-> r.terms, called |-> TRUE, raised |-> "none"]

IsClose(target, rel_tol, abs_tol) ==
    PyTuple(<<PyInt(target), PyInt(rel_tol), PyInt(abs_tol)>>)

SampleClientTerms ==
    {Term("abs_tolerance", "isclose", IsClose(t, r, a)) :
        t \in {-1, 2}, r \in {0, 1}, a \in {0, 1}}
    \cup { Term("abs_tolerance", "isclose", PyTuple(<<PyInt(1), PyInt(0)>>)),
           Term("abs_tolerance", "gt", PyInt(0)),
           Term("description", "like", PyStr(<<"a">>)),
           Term("entry_type", "eq", PyType("PV")) }

InitClientSearch ==
    /\ pvs = <<>>
    /\ snapshots = <<>>
    /\ tag_groups = EmptyDict
    /\ next_uuid = 0
    /\ last = NoLast
    /\ assigned = {}
    /\ remote = EmptyDict
    /\ _tag_cache = EmptyDict
    /\ _last_tag_fetch = 0 - Minute
    /\ now = 0
    /\ meta_pvs = <<>>
    /\ \E post \in SeqsUpTo(SampleClientTerms, MaxClientTerms) :
           call = [fn |-> "client_search", pc |-> "call", post |-> post,
                   result |-> "pending"]

ClientSearch ==
    /\ call.fn = "client_search" /\ call.pc = "call"
    /\ call' = [call EXCEPT !.pc = "done", !.result = client_search(call.post)]
    /\ UNCHANGED <<pvs, snapshots, tag_groups, next_uuid, last, assigned, remote, meta_pvs,
                 _tag_cache, _last_tag_fetch, now>>

NextClientSearch == ClientSearch

SpecClientSearch == InitClientSearch /\ [][NextClientSearch]_vars

(***************************************************************************)
(* Client.snap over a TestBackend.  The control layer is outside the       *)
(* program: it answers a read of an address with an EpicsData, or with a    *)
(* value that is none (an exception object, None) when the read fails.     *)
(***************************************************************************)
MaxSnapPVs == 3

Addresses == {<<"a">>, <<"b">>, <<"c">>}

\* What a read of an address gives: "ok", "exception" or "none".
ReadOutcomes == {"ok", "exception", "none"}

\* The value the control layer returns for one address.
cl_value(live, address) ==
    IF live[address] = "ok" THEN EpicsData(PyStr(address))
    ELSE IF live[address] = "exception"
    THEN [type |-> "CommunicationError", val |-> address]
    ELSE PyNone

\* self.cl.get(addresses): one value per address, in order.
cl_get(live, addresses) == [i \in 1..Len(addresses) |-> cl_value(live, addresses[i])]

\* A value that is not an EpicsData is kept as it is:
_value_or_default_keeps(value) == value

\* Client._value_or_default(value)
_value_or_default(value) ==
    IF value.type = "NoneType" \/ value.type # "EpicsData" THEN EpicsData(PyNone)
    ELSE value

\* {pv_address: value for pv_address, value in zip(all_addresses, values)}: the
\* value of the last pair with that address.
zip_dict(all_addresses, values, address) ==
    values[Max({i \in 1..Len(all_addresses) : all_addresses[i] = address})]

\* The loop of snap: the copies of all_pvs with the data read for them.
snap_entries(all_pvs, live) ==
    LET all_addresses ==
            SelectSeq([i \in 1..Len(all_pvs) |-> all_pvs[i].setpoint.val],
                      LAMBDA a : a # <<>>)
            \o SelectSeq([i \in 1..Len(all_pvs) |-> all_pvs[i].readback.val],
                         LAMBDA a : a # <<>>)
        values == cl_get(live, all_addresses)
        new_entry(pv) ==
            [pv EXCEPT
                !.readback_data =
                    IF pv.readback.val # <<>>
                    THEN _value_or_default(zip_dict(all_addresses, values, pv.readback.val))
                    ELSE @,
                !.setpoint_data =
                    IF pv.setpoint.val # <<>>
                    THEN _value_or_default(zip_dict(all_addresses, values, pv.setpoint.val))
                    ELSE @]
    IN [i \in 1..Len(all_pvs) |-> new_entry(all_pvs[i])]

\* Client.snap(dest): dest is None or a Snapshot; uuid is the value uuid4()
\* returns if a Snapshot is constructed.
snap(dest, uuid, live) ==
    LET all_pvs == pvs \o meta_pvs
        snapshot == IF dest = PyNone THEN Snapshot(uuid, <<>>, <<>>) ELSE dest
    IN [snapshot EXCEPT !.pvs = PyList(@.val \o snap_entries(all_pvs, live))]

\* PV(setpoint=..., readback=...)
WithAddresses(pv, setpoint, readback) ==
    [pv EXCEPT !.setpoint = PyStr(setpoint), !.readback = PyStr(readback)]

\* (setpoint, readback) of the PVs the back end is constructed with.
SampleAddressPairs ==
    { <<<<"a">>, <<>>>>, <<<<"b">>, <<>>>>, <<<<"c">>, <<>>>>,
      <<<<>>, <<"a">>>>, <<<<"a">>, <<"b">>>>, <<<<>>, <<>>>> }

\* The meta PVs the back end is constructed with.
SampleMetaPVs ==
    { <<>>, <<WithAddresses(PV(<<"c", "b">>, <<"b">>, PyDict(EmptyDict), 0), <<>>, <<"b">>)>> }

InitSnap ==
    /\ \E pairs \in SeqsUpTo(SampleAddressPairs, MaxSnapPVs) :
           /\ pvs = [i \in 1..Len(pairs) |->
                         WithAddresses(PV(uuid4(i), <<"a">>, PyDict(EmptyDict), 0),
                                       pairs[i][1], pairs[i][2])]
           /\ next_uuid = Len(pairs) + 1
    /\ snapshots = <<>>
    /\ tag_groups = EmptyDict
    /\ last = NoLast
    /\ assigned = {}
    /\ remote = EmptyDict
    /\ _tag_cache = EmptyDict
    /\ _last_tag_fetch = 0 - Minute
    /\ now = 0
    /\ meta_pvs \in SampleMetaPVs
    /\ \E dest \in {PyNone, Snapshot(UnsavedUuid, <<>>, <<"a">>)},
          live \in [Addresses -> ReadOutcomes] :
           call = [fn |-> "snap", pc |-> "call", dest |-> dest, live |-> live,
                   result |-> "pending"]

Snap ==
    /\ call.fn = "snap" /\ call.pc = "call"
    /\ call' = [call EXCEPT !.pc = "done",
                            !.result = snap(call.dest, uuid4(next_uuid), call.live)]
    /\ next_uuid' = IF call.dest = PyNone THEN next_uuid + 1 ELSE next_uuid
    /\ UNCHANGED <<pvs, snapshots, tag_groups, last, assigned, remote, meta_pvs,
                 _tag_cache, _last_tag_fetch, now>>

NextSnap == Snap

SpecSnap == InitSnap /\ [][NextSnap]_vars

(***************************************************************************)
(* Client.apply.  A write is answered by the control layer with a status   *)
(* whose exception() is None or the exception of the failed write.         *)
(***************************************************************************)
MaxApplyPVs == 3

\* The status the control layer returns for a write.
TaskStatus(address, value, exception) ==
    [address |-> address, value |-> value, exception |-> exception]

\* exception() of a status: None, or the exception of the failed write.
PutOutcomes == {PyNone, [type |-> "CommunicationError", val |-> <<>>]}

\* [pv for pv in entry.pvs if pv.setpoint and pv.setpoint_data]
setpoints_of(entry) ==
    SelectSeq(entry.pvs.val,
              LAMBDA pv : pv.setpoint.val # <<>> /\ pv.setpoint_data # PyNone)

\* The start of apply(entry, sequential), up to its first write or its return;
\* exception is what the control layer answers if a write is made here.
apply_call(c, exception) ==
    IF "cls" \notin DOMAIN c.entry
    THEN [c EXCEPT !.pc = "done", !.result = PyNone]
    ELSE IF c.entry.cls = "PV"
    THEN LET status == TaskStatus(c.entry.setpoint.val, c.entry.setpoint_data, exception)
         IN [c EXCEPT !.pc = "done", !.puts = <<status>>,
                      !.result = PyList(<<status>>)]
    ELSE IF c.sequential
    THEN [c EXCEPT !.pc = "loop", !.setpoints = setpoints_of(c.entry), !.i = 1]
    ELSE LET setpoints == setpoints_of(c.entry)
             status == TaskStatus(
                          [k \in 1..Len(setpoints) |-> setpoints[k].setpoint.val],
                          [k \in 1..Len(setpoints) |-> setpoints[k].setpoint_data.val],
                          exception)
         IN [c EXCEPT !.pc = "done", !.setpoints = setpoints, !.puts = <<status>>,
                      !.result = status]

\* A failed write is logged and the loop goes on:
apply_put_goes_on(c, exception) ==
    LET pv == c.setpoints[c.i]
        status == TaskStatus(pv.setpoint.val, pv.setpoint_data.val, exception)
    IN [c EXCEPT !.puts = Append(@, status), !.status_list = Append(@, status),
                 !.i = @ + 1]

\* One pass of the sequential loop: the write of setpoints[i] and its check.
apply_put(c, exception) ==
    LET pv == c.setpoints[c.i]
        status == TaskStatus(pv.setpoint.val, pv.setpoint_data.val, exception)
    IN IF exception # PyNone
       THEN [c EXCEPT !.puts = Append(@, status), !.pc = "done", !.result = PyNone]
       ELSE [c EXCEPT !.puts = Append(@, status), !.status_list = Append(@, status),
                      !.i = @ + 1]

\* The end of the sequential loop: return status_list.
apply_return(c) == [c EXCEPT !.pc = "done", !.result = PyList(c.status_list)]

\* PV(setpoint=..., setpoint_data=...)
WithSetpoint(pv, setpoint, setpoint_data) ==
    [pv EXCEPT !.setpoint = PyStr(setpoint), !.setpoint_data = setpoint_data]

\* (setpoint, setpoint_data) of the PVs of the Snapshots applied.
SampleSetpoints ==
    { <<<<"a">>, EpicsData(PyInt(0))>>, <<<<"b">>, EpicsData(PyInt(1))>>,
      <<<<>>, EpicsData(PyInt(0))>>, <<<<"c">>, PyNone>> }

\* A Snapshot holding the given PVs.
SnapshotOf(setpoints) ==
    [Snapshot(UnsavedUuid, <<>>, <<"a">>) EXCEPT
        !.pvs = PyList([k \in 1..Len(setpoints) |->
                           WithSetpoint(PV(uuid4(k), <<"a">>, PyDict(EmptyDict), 0),
                                        setpoints[k][1], setpoints[k][2])])]

SampleApplyEntries ==
    {SnapshotOf(sp) : sp \in SeqsUpTo(SampleSetpoints, MaxApplyPVs)}
    \cup { WithSetpoint(UnsavedEntry, <<"a">>, EpicsData(PyInt(1))), PyStr(<<"a">>) }

InitApply ==
    /\ pvs = <<>>
    /\ snapshots = <<>>
    /\ tag_groups = EmptyDict
    /\ next_uuid = 0
    /\ last = NoLast
    /\ assigned = {}
    /\ remote = EmptyDict
    /\ _tag_cache = EmptyDict
    /\ _last_tag_fetch = 0 - Minute
    /\ now = 0
    /\ meta_pvs = <<>>
    /\ \E entry \in SampleApplyEntries, sequential \in BOOLEAN :
           call = [fn |-> "apply", pc |-> "call", entry |-> entry,
                   sequential |-> sequential, setpoints |-> <<>>, i |-> 0,
                   puts |-> <<>>, status_list |-> <<>>, result |-> "pending"]

ApplyCall ==
    /\ call.fn = "apply" /\ call.pc = "call"
    /\ \E exception \in PutOutcomes : call' = apply_call(call, exception)
    /\ UNCHANGED <<pvs, snapshots, tag_groups, next_uuid, last, assigned, remote, meta_pvs,
                 _tag_cache, _last_tag_fetch, now>>

ApplyPut ==
    /\ call.fn = "apply" /\ call.pc = "loop" /\ call.i <= Len(call.setpoints)
    /\ \E exception \in PutOutcomes : call' = apply_put(call, exception)
    /\ UNCHANGED <<pvs, snapshots, tag_groups, next_uuid, last, assigned, remote, meta_pvs,
                 _tag_cache, _last_tag_fetch, now>>

ApplyReturn ==
    /\ call.fn = "apply" /\ call.pc = "loop" /\ call.i > Len(call.setpoints)
    /\ call' = apply_return(call)
    /\ UNCHANGED <<pvs, snapshots, tag_groups, next_uuid, last, assigned, remote, meta_pvs,
                 _tag_cache, _last_tag_fetch, now>>

NextApply ==
    \/ ApplyCall
    \/ ApplyPut
    \/ ApplyReturn

SpecApply == InitApply /\ [][NextApply]_vars

(***************************************************************************)
(* MongoBackend: PVs, Snapshots and archive_pv.  remote holds the PV        *)
(* documents of the store and snapshots holds, here, its Snapshot           *)
(* documents; a PV's id is the position of its uuid among uuid4's values.   *)
(***************************************************************************)
MaxArchivePVs == 2

\* The group of each tag id of the definition, the later group winning.
id_to_group(tag_def, tag_id) ==
    Max({g \in DOMAIN tag_def : tag_id \in DOMAIN tag_def[g][3].val})

\* MongoBackend._unpack_tags(tag_list), tag_def being what get_tags() returns.
_unpack_tags(tag_def, tag_list) ==
    LET ids == {tag_list[i] : i \in 1..Len(tag_list)}
        known(d) == \E g \in DOMAIN tag_def : d \in DOMAIN tag_def[g][3].val
    IN IF \E d \in ids : ~known(d) THEN "KeyError"
       ELSE [g \in {id_to_group(tag_def, d) : d \in ids} |->
                {d \in ids : id_to_group(tag_def, d) = g}]

\* MongoBackend._unpack_pv(pv_dict), for a document whose tags are defined.
_unpack_pv(tag_def, id, pv_dict) ==
    WithAddresses(PV(uuid4(id), pv_dict["description"],
                     PyDict(_unpack_tags(tag_def, pv_dict["tags"])),
                     pv_dict["absTolerance"]),
                  pv_dict["setpointAddress"], pv_dict["readbackAddress"])

\* MongoBackend.get_all_pvs(): the documents of GET /v1/pvs, unpacked.
mongo_get_all_pvs(store, tag_def) ==
    LET ids == Ascending(DOMAIN store)
    IN [k \in 1..Len(ids) |-> _unpack_pv(tag_def, ids[k], store[ids[k]])]

\* DELETE /v1/pvs/{pv_id}: the PV leaves the list of current PVs; an unknown id
\* is answered with 404.
ServerDelete(store, pv_id) ==
    IF pv_id \notin DOMAIN store THEN [store |-> store, status |-> 404]
    ELSE [store |-> Remove(store, pv_id), status |-> 200]

\* MongoBackend.archive_pv(pv_id)
archive_pv(store, pv_id) ==
    LET r == ServerDelete(store, pv_id)
    IN [store |-> r.store, raised |-> _raise_for_status(r.status)]

\* MongoBackend._pack_snapshot(snapshot)
_pack_snapshot(snapshot) ==
    LET with_setpoint == SelectSeq(snapshot.pvs.val, LAMBDA pv : pv.setpoint.val # <<>>)
        with_readback == SelectSeq(snapshot.pvs.val, LAMBDA pv : pv.readback.val # <<>>)
        setpoint_values == [k \in 1..Len(with_setpoint) |->
                               [pvName |-> with_setpoint[k].setpoint.val,
                                data |-> with_setpoint[k].setpoint_data.val]]
        readback_values == [k \in 1..Len(with_readback) |->
                               [pvName |-> with_readback[k].readback.val,
                                data |-> with_readback[k].readback_data.val]]
    IN [title |-> snapshot.title.val, description |-> snapshot.description.val,
        values |-> setpoint_values \o readback_values]

\* POST /v1/snapshots: the store keeps the values under a new id.
ServerPostSnapshot(docs, body) ==
    [docs |-> Append(docs, [id |-> Len(docs) + 1, title |-> body.title,
                            description |-> body.description, data |-> body.values]),
     status |-> 200]

\* MongoBackend.add_snapshot(snapshot)
mongo_add_snapshot(docs, snapshot) ==
    LET r == ServerPostSnapshot(docs, _pack_snapshot(snapshot))
    IN [docs |-> r.docs, raised |-> _raise_for_status(r.status)]

\* MongoBackend._unpack_snapshot(snapshot_dict); n is the number of uuid4()
\* values drawn before the call.
_unpack_snapshot(store, tag_def, snapshot_dict, n) ==
    LET pv_defs == mongo_get_all_pvs(store, tag_def)
        data == snapshot_dict.data
        \* pv_values_map[address]: the last PV carrying the address
        owner(address) ==
            Max({k \in 1..Len(pv_defs) : \/ pv_defs[k].setpoint.val = address
                                         \/ pv_defs[k].readback.val = address})
        setpoint_hits(k) ==
            {j \in 1..Len(data) : /\ data[j].pvName = pv_defs[k].setpoint.val
                                  /\ owner(data[j].pvName) = k}
        readback_hits(k) ==
            {j \in 1..Len(data) : /\ data[j].pvName = pv_defs[k].readback.val
                                  /\ data[j].pvName # pv_defs[k].setpoint.val
                                  /\ owner(data[j].pvName) = k}
        pv_with_values(k) ==
            [WithAddresses(PV(uuid4(n + k - 1), <<>>, PyDict(EmptyDict), 0),
                           pv_defs[k].setpoint.val, pv_defs[k].readback.val)
             EXCEPT !.abs_tolerance = PyNone,
                    !.setpoint_data = IF setpoint_hits(k) = {} THEN @
                                      ELSE EpicsData(data[Max(setpoint_hits(k))].data),
                    !.readback_data = IF readback_hits(k) = {} THEN @
                                      ELSE EpicsData(data[Max(readback_hits(k))].data)]
    IN [Snapshot(uuid4(snapshot_dict.id), snapshot_dict.description, snapshot_dict.title)
        EXCEPT !.pvs = PyList([k \in 1..Len(pv_defs) |-> pv_with_values(k)])]

\* MongoBackend.get_snapshots(uuid=uuid)
mongo_get_snapshots(docs, store, tag_def, uuid, n) ==
    IF uuid \notin 1..Len(docs)
    THEN [value |-> <<>>, raised |-> _raise_for_status(404)]
    ELSE [value |-> <<_unpack_snapshot(store, tag_def, docs[uuid], n)>>,
          raised |-> _raise_for_status(200)]

InitArchive ==
    /\ pvs = <<>>
    /\ snapshots = <<>>
    /\ tag_groups = EmptyDict
    /\ next_uuid = 0
    /\ assigned = {}
    /\ call = NoCall
    /\ remote = EmptyDict
    /\ _tag_cache = EmptyDict
    /\ _last_tag_fetch = 0 - Minute
    /\ now = 0
    /\ meta_pvs = <<>>
    /\ last = [op |-> "none", pv_id |-> 0, args |-> NoArgs, entry |-> PyNone,
               result |-> "ok", repeat |-> FALSE]

ArchiveAddPv ==
    \E setpoint \in {<<"a">>, <<"b">>} :
        LET r == mongo_add_pv(remote, setpoint, <<>>, <<"a">>, <<>>, PyNone, 0, 0)
        IN /\ Cardinality(DOMAIN remote) < MaxArchivePVs
           /\ Max(DOMAIN r.store) <= MaxArchivePVs + 1
           /\ remote' = r.store
           /\ last' = CalledRemote("add_pv", Max(DOMAIN r.store), NoArgs, PyNone, Outcome(r))
           /\ call' = NoCall
           /\ UNCHANGED <<pvs, snapshots, tag_groups, next_uuid, assigned, meta_pvs,
                 _tag_cache, _last_tag_fetch, now>>

\* client.snap() over the current PVs with every read answered, then
\* add_snapshot of what it returned.
ArchiveAddSnapshot ==
    LET live == [a \in Addresses |-> "ok"]
        snapshot == [Snapshot(UnsavedUuid, <<>>, <<"a">>) EXCEPT
                        !.pvs = PyList(snap_entries(
                                    mongo_get_all_pvs(remote, tag_groups), live))]
        r == mongo_add_snapshot(snapshots, snapshot)
    IN /\ Len(snapshots) < MaxSnapshots
       /\ snapshots' = r.docs
       /\ last' = CalledRemote("add_snapshot", 0, NoArgs, PyNone, Outcome(r))
       /\ call' = NoCall
       /\ UNCHANGED <<pvs, tag_groups, next_uuid, assigned, remote, meta_pvs,
                 _tag_cache, _last_tag_fetch, now>>

ArchivePv ==
    \E pv_id \in 1..(MaxArchivePVs + 1) :
        LET r == archive_pv(remote, pv_id)
        IN /\ remote' = r.store
           /\ last' = CalledRemote("archive_pv", pv_id, NoArgs, PyNone, Outcome(r))
           /\ call' = NoCall
           /\ UNCHANGED <<pvs, snapshots, tag_groups, next_uuid, assigned, meta_pvs,
                 _tag_cache, _last_tag_fetch, now>>

ArchiveGetAllPvs ==
    /\ call = NoCall
    /\ call' = [fn |-> "get_all_pvs", pc |-> "done", uuid |-> 0,
                result |-> [value |-> mongo_get_all_pvs(remote, tag_groups),
                            raised |-> "none"]]
    /\ UNCHANGED <<pvs, snapshots, tag_groups, next_uuid, last, assigned, remote, meta_pvs,
                 _tag_cache, _last_tag_fetch, now>>

ArchiveGetSnapshots ==
    \E uuid \in 1..(MaxSnapshots + 1) :
        /\ call = NoCall
        /\ call' = [fn |-> "get_snapshots", pc |-> "done", uuid |-> uuid,
                    result |-> mongo_get_snapshots(snapshots, remote, tag_groups,
                                                   uuid, 0)]
        /\ UNCHANGED <<pvs, snapshots, tag_groups, next_uuid, last, assigned, remote, meta_pvs,
                 _tag_cache, _last_tag_fetch, now>>

NextArchive ==
    \/ ArchiveAddPv
    \/ ArchiveAddSnapshot
    \/ ArchivePv
    \/ ArchiveGetAllPvs
    \/ ArchiveGetSnapshots

SpecArchive == InitArchive /\ [][NextArchive]_vars

(***************************************************************************)
(* MongoBackend.get_tags and its cache.  tag_groups is here the tag         *)
(* definition the remote store holds; the store answers each request with   *)
(* an ok or an error status.                                                *)
(***************************************************************************)
MaxNow == 5

\* The definition get_tags assembles: nothing if the list request failed, else
\* the groups whose own request was answered ok.
fetched_tag_def(server_def, ok_list, ok_group) ==
    IF ~ok_list THEN EmptyDict
    ELSE [g \in {h \in DOMAIN server_def : ok_group[h]} |-> server_def[g]]

\* The fetch time is left as it was:
get_tags_keeps_fetch_time(cache, last_fetch, started, finished, server_def, ok_list, ok_group) ==
    IF started - last_fetch > Minute
    THEN LET tag_def == fetched_tag_def(server_def, ok_list, ok_group)
         IN [_tag_cache |-> tag_def, _last_tag_fetch |-> last_fetch,
             requests |-> 1 + (IF ok_list THEN Cardinality(DOMAIN server_def) ELSE 0),
             value |-> tag_def, raised |-> "none"]
    ELSE [_tag_cache |-> cache, _last_tag_fetch |-> last_fetch, requests |-> 0,
          value |-> cache, raised |-> "none"]

\* MongoBackend.get_tags(): started and finished are datetime.now() at the test
\* of the cache's age and after the requests.
get_tags(cache, last_fetch, started, finished, server_def, ok_list, ok_group) ==
    IF started - last_fetch > Minute
    THEN LET tag_def == fetched_tag_def(server_def, ok_list, ok_group)
         IN [_tag_cache |-> tag_def, _last_tag_fetch |-> finished,
             requests |-> 1 + (IF ok_list THEN Cardinality(DOMAIN server_def) ELSE 0),
             value |-> tag_def, raised |-> "none"]
    ELSE [_tag_cache |-> cache, _last_tag_fetch |-> last_fetch, requests |-> 0,
          value |-> cache, raised |-> "none"]

\* POST /v1/tags: the store creates the group under a new id, or refuses.
ServerPostTagGroup(server_def, body, ok) ==
    IF ~ok THEN [def |-> server_def, status |-> 500, id |-> -1]
    ELSE LET id == new_group_id(server_def)
         IN [def |-> Put(server_def, id,
                         <<PyStr(body.name), PyStr(body.description), PyDict(EmptyDict)>>),
             status |-> 200, id |-> id]

\* MongoBackend.add_tag_group(name, description)
mongo_add_tag_group(server_def, name, description, ok) ==
    LET r == ServerPostTagGroup(server_def, [name |-> name, description |-> description], ok)
    IN [def |-> r.def, status |-> r.status, raised |-> _raise_for_status(r.status),
        ret |-> r.id]

InitTags ==
    /\ pvs = <<>>
    /\ snapshots = <<>>
    /\ tag_groups = EmptyDict
    /\ next_uuid = 0
    /\ assigned = {}
    /\ call = NoCall
    /\ remote = EmptyDict
    /\ _tag_cache = EmptyDict
    /\ _last_tag_fetch = 0 - Minute
    /\ now = 0
    /\ meta_pvs = <<>>
    /\ last = [op |-> "none", status |-> 200, result |-> "ok"]

\* Time passes.
Tick ==
    /\ now < MaxNow
    /\ now' = now + 1
    /\ call' = NoCall
    /\ UNCHANGED <<pvs, snapshots, tag_groups, next_uuid, last, assigned, remote, meta_pvs,
                   _tag_cache, _last_tag_fetch>>

MongoAddTagGroup ==
    \E ok \in BOOLEAN :
        LET r == mongo_add_tag_group(tag_groups, <<"a">>, <<>>, ok)
        IN /\ r.ret <= MaxGroupId
           /\ tag_groups' = r.def
           /\ last' = [op |-> "add_tag_group", status |-> r.status, result |-> Outcome(r)]
           /\ call' = NoCall
           /\ UNCHANGED <<pvs, snapshots, next_uuid, assigned, remote, meta_pvs,
                          _tag_cache, _last_tag_fetch, now>>

MongoGetTags ==
    \E ok_list \in BOOLEAN, ok_group \in [DOMAIN tag_groups -> BOOLEAN], took \in 0..1 :
        LET fetch == now - _last_tag_fetch > Minute
            finished == IF fetch THEN now + took ELSE now
            r == get_tags(_tag_cache, _last_tag_fetch, now, finished, tag_groups,
                          ok_list, ok_group)
        IN /\ finished <= MaxNow
           /\ _tag_cache' = r._tag_cache
           /\ _last_tag_fetch' = r._last_tag_fetch
           /\ now' = finished
           /\ call' = [fn |-> "get_tags", pc |-> "done", requests |-> r.requests,
                       value |-> r.value, raised |-> r.raised, before |-> _tag_cache,
                       all_ok |-> \/ r.requests = 0
                                  \/ (ok_list /\ \A g \in DOMAIN tag_groups : ok_group[g])]
           /\ UNCHANGED <<pvs, snapshots, tag_groups, next_uuid, last, assigned, remote,
                          meta_pvs>>

NextTags ==
    \/ Tick
    \/ MongoAddTagGroup
    \/ MongoGetTags

SpecTags == InitTags /\ [][NextTags]_vars

(***************************************************************************)
(* The remote back end's wire format, there and back: a PV's tags through  *)
(* _pack_tags and _unpack_tags, a Snapshot through _pack_snapshot, the      *)
(* store and _unpack_snapshot.  The store hands back the tag ids and the    *)
(* values it was sent.                                                      *)
(***************************************************************************)
MaxRoundTripPVs == 2

\* A group of the tag definition with the given tag ids.
GroupWith(tag_ids) ==
    <<PyStr(<<"a">>), PyStr(<<>>), PyDict([t \in tag_ids |-> <<"a">>])>>

\* _unpack_tags(_pack_tags(tags)) for tags that tag_def defines: every id packed
\* is found in some group, so that the KeyError branch is not taken.
tags_round_trip(tag_def, tags) == PyDict(_unpack_tags(tag_def, _pack_tags(tags)))

\* The store after add_pv of each PV of the list, in order.
RECURSIVE store_of(_, _)
store_of(pv_list, k) ==
    IF k = 0 THEN EmptyDict
    ELSE mongo_add_pv(store_of(pv_list, k - 1), pv_list[k].setpoint.val,
                      pv_list[k].readback.val, pv_list[k].description.val, <<>>,
                      PyNone, 0, 0).store

\* add_snapshot(snapshot) on a store holding the Snapshot's PVs, then
\* get_snapshots(uuid=...) of it.
snapshot_round_trip(snapshot) ==
    LET store == store_of(snapshot.pvs.val, Len(snapshot.pvs.val))
        docs == mongo_add_snapshot(<<>>, snapshot).docs
    IN mongo_get_snapshots(docs, store, EmptyDict, 1, 0).value[1]

\* (setpoint, readback, data) of the PVs of the Snapshots sent.
RoundTripPVs ==
    { <<<<"a">>, <<>>, 0>>, <<<<"b">>, <<"c">>, 1>>, <<<<"a">>, <<>>, 1>> }

InitRoundTrip ==
    /\ pvs = <<>>
    /\ snapshots = <<>>
    /\ tag_groups \in {[g \in DOMAIN ts |-> GroupWith(ts[g])] : ts \in TagSets}
    /\ next_uuid = 0
    /\ last = NoLast
    /\ assigned = {}
    /\ remote = EmptyDict
    /\ _tag_cache = EmptyDict
    /\ _last_tag_fetch = 0 - Minute
    /\ now = 0
    /\ meta_pvs = <<>>
    /\ \E tags \in TagSets, sent \in SeqsUpTo(RoundTripPVs, MaxRoundTripPVs) :
           /\ \A g \in DOMAIN tags :
                  g \in DOMAIN tag_groups /\ tags[g] \subseteq DOMAIN tag_groups[g][3].val
           /\ call = [fn |-> "round_trip", pc |-> "call", tags |-> tags,
                      snapshot |->
                          [Snapshot(UnsavedUuid, <<>>, <<"a">>) EXCEPT
                              !.pvs = PyList([k \in 1..Len(sent) |->
                                  [WithAddresses(PV(uuid4(k), <<"a">>, PyDict(EmptyDict), 0),
                                                 sent[k][1], sent[k][2])
                                   EXCEPT !.setpoint_data = EpicsData(PyInt(sent[k][3])),
                                          !.readback_data =
                                              IF sent[k][2] = <<>> THEN @
                                              ELSE EpicsData(PyInt(sent[k][3] + 1))]])],
                      result |-> "pending"]

RoundTrip ==
    /\ call.fn = "round_trip" /\ call.pc = "call"
    /\ call' = [call EXCEPT !.pc = "done",
                   !.result = [tags |-> tags_round_trip(tag_groups, call.tags),
                               snapshot |-> snapshot_round_trip(call.snapshot)]]
    /\ UNCHANGED <<pvs, snapshots, tag_groups, next_uuid, last, assigned, remote, meta_pvs,
                   _tag_cache, _last_tag_fetch, now>>

NextRoundTrip == RoundTrip

SpecRoundTrip == InitRoundTrip /\ [][NextRoundTrip]_vars

(***************************************************************************)
(* The caller's copy of the tag definition.  get_tags() of the in-memory   *)
(* back end returns self.tag_groups.copy(): a new dict whose values are    *)
(* the back end's own group lists.  A key of the copy is either still      *)
(* bound to the back end's list (shared) or to a list the caller has put   *)
(* there.                                                                  *)
(***************************************************************************)
MaxEdits == 2

Shared == [shared |-> TRUE, val |-> <<>>]
Own(group) == [shared |-> FALSE, val |-> group]

\* What the caller reads in its copy.
copy_value(groups, tag_def) ==
    [g \in DOMAIN tag_def |-> IF tag_def[g].shared THEN groups[g] ELSE tag_def[g].val]

\* TestBackend.get_tags()
test_get_tags(groups) == [g \in DOMAIN groups |-> Shared]

\* tag_def[g] changed in place to group: the list is the back end's if shared.
mutate_group(groups, tag_def, g, group) ==
    IF tag_def[g].shared THEN [groups |-> Put(groups, g, group), tag_def |-> tag_def]
    ELSE [groups |-> groups, tag_def |-> Put(tag_def, g, Own(group))]

NewTags == {PyDict([t \in ts |-> <<"b">>]) : ts \in SUBSET TagIds}

InitWorkingCopy ==
    /\ pvs = <<>>
    /\ snapshots = <<>>
    /\ tag_groups \in {[g \in DOMAIN ts |-> GroupWith(ts[g])] : ts \in TagSets}
    /\ next_uuid = 0
    /\ last = NoLast
    /\ assigned = {}
    /\ remote = EmptyDict
    /\ _tag_cache = EmptyDict
    /\ _last_tag_fetch = 0 - Minute
    /\ now = 0
    /\ meta_pvs = <<>>
    /\ call = NoCall

\* tag_def = backend.get_tags()
WorkingCopyGet ==
    /\ call.fn = "none"
    /\ call' = [fn |-> "get_tags", pc |-> "held", tag_def |-> test_get_tags(tag_groups),
                returned |-> tag_groups, later |-> tag_groups, edits |-> 0]
    /\ last' = Called("get_tags", -1, -1, PyNone, "ok")
    /\ UNCHANGED <<pvs, snapshots, tag_groups, next_uuid, assigned, remote, meta_pvs,
                   _tag_cache, _last_tag_fetch, now>>

\* One change of the caller's to its copy.
Mutate(op, g, group) ==
    LET r == mutate_group(tag_groups, call.tag_def, g, group)
    IN /\ call.edits < MaxEdits
       /\ tag_groups' = r.groups
       /\ call' = [call EXCEPT !.tag_def = r.tag_def, !.edits = @ + 1]
       /\ last' = Called(op, g, -1, PyNone, "ok")
       /\ UNCHANGED <<pvs, snapshots, next_uuid, assigned, remote, meta_pvs,
                      _tag_cache, _last_tag_fetch, now>>

\* tag_def[g][2] = new_tags
CopyReplaceTags ==
    /\ call.fn = "get_tags"
    /\ \E g \in DOMAIN call.tag_def, new_tags \in NewTags :
           LET group == copy_value(tag_groups, call.tag_def)[g]
           IN Mutate("replace_tags", g, [group EXCEPT ![3] = new_tags])

\* tag_def[g][0] = name
CopyRenameGroup ==
    /\ call.fn = "get_tags"
    /\ \E g \in DOMAIN call.tag_def :
           LET group == copy_value(tag_groups, call.tag_def)[g]
           IN Mutate("rename_group", g, [group EXCEPT ![1] = PyStr(<<"b">>)])

\* tag_def[g][2][t] = name
CopyAddTag ==
    /\ call.fn = "get_tags"
    /\ \E g \in DOMAIN call.tag_def, t \in TagIds :
           LET group == copy_value(tag_groups, call.tag_def)[g]
           IN /\ t \notin DOMAIN group[3].val
              /\ Mutate("add_tag", g, [group EXCEPT ![3] = PyDict(Put(@.val, t, <<"b">>))])

\* tag_def[g] = [name, description, {}]: the key is bound to a new list.
CopyReplaceGroup ==
    /\ call.fn = "get_tags"
    /\ call.edits < MaxEdits
    /\ \E g \in GroupIds :
           /\ call' = [call EXCEPT !.tag_def = Put(@, g, Own(GroupWith({}))),
                                   !.edits = @ + 1]
           /\ last' = Called("replace_group", g, -1, PyNone, "ok")
           /\ UNCHANGED <<pvs, snapshots, tag_groups, next_uuid, assigned, remote, meta_pvs,
                          _tag_cache, _last_tag_fetch, now>>

\* backend.get_tags() once more, the caller keeping its copy.
WorkingCopyGetAgain ==
    /\ call.fn = "get_tags"
    /\ call' = [call EXCEPT !.later = tag_groups]
    /\ last' = Called("get_tags", -1, -1, PyNone, "ok")
    /\ UNCHANGED <<pvs, snapshots, tag_groups, next_uuid, assigned, remote, meta_pvs,
                   _tag_cache, _last_tag_fetch, now>>

\* backend.set_tags(tag_def), which ends the caller's work on its copy.
WorkingCopySet ==
    /\ call.fn = "get_tags"
    /\ tag_groups' = copy_value(tag_groups, call.tag_def)
    /\ call' = [fn |-> "set_tags", pc |-> "done"]
    /\ last' = Called("set_tags", -1, -1, PyNone, "ok")
    /\ UNCHANGED <<pvs, snapshots, next_uuid, assigned, remote, meta_pvs,
                   _tag_cache, _last_tag_fetch, now>>

NextWorkingCopy ==
    \/ WorkingCopyGet
    \/ CopyReplaceTags
    \/ CopyRenameGroup
    \/ CopyAddTag
    \/ CopyReplaceGroup
    \/ WorkingCopyGetAgain
    \/ WorkingCopySet

SpecWorkingCopy == InitWorkingCopy /\ [][NextWorkingCopy]_vars

(***************************************************************************)
(* A PV object in the caller's hands.  add_pv returns the object it has    *)
(* appended to self.pvs, get_all_pvs() a new list of the same objects and  *)
(* search yields them: what the caller holds is the stored object, named   *)
(* here by its place in pvs.                                               *)
(***************************************************************************)
\* The places in pvs of the objects search(*search_terms) yields.
search_refs(search_terms) ==
    LET yielded == search(search_terms).yielded
    IN {k \in 1..Len(pvs) : \E i \in 1..Len(yielded) : yielded[i].uuid = pvs[k].uuid}

\* pv.<field> = value on the object at place ref.
set_field(stored, ref, field, value) == [stored EXCEPT ![ref][field] = value]

Held(from, ref) == [fn |-> "handle", pc |-> "held", from |-> from, ref |-> ref]

FieldValues ==
    { <<"description", PyStr(<<"a">>)>>, <<"description", PyStr(<<"b">>)>>,
      <<"abs_tolerance", PyInt(1)>>, <<"tags", PyDict(D1(0, {0}))>> }

\* pv = backend.add_pv(...)
HandleAddPv ==
    \E tags \in AddPvTags :
        LET pv == PV(uuid4(next_uuid), <<"a">>, tags, 0)
        IN /\ Len(pvs) < MaxPVs
           /\ pvs' = Append(pvs, pv)
           /\ next_uuid' = next_uuid + 1
           /\ last' = Called("add_pv", -1, -1, pv, "ok")
           /\ call' = Held("add_pv", Len(pvs) + 1)
           /\ UNCHANGED <<snapshots, tag_groups, assigned, remote, meta_pvs,
                          _tag_cache, _last_tag_fetch, now>>

\* pv = backend.get_all_pvs()[k]
HandleGetAllPvs ==
    \E k \in 1..Len(pvs) :
        /\ last' = Called("get_all_pvs", -1, -1, pvs[k], "ok")
        /\ call' = Held("get_all_pvs", k)
        /\ UNCHANGED <<pvs, snapshots, tag_groups, next_uuid, assigned, remote, meta_pvs,
                       _tag_cache, _last_tag_fetch, now>>

\* pv = one of backend.search(("description", "eq", ...))
HandleSearch ==
    \E description \in {<<"a">>, <<"b">>} :
        \E k \in search_refs(<<Term("description", "eq", PyStr(description))>>) :
            /\ last' = Called("search", -1, -1, pvs[k], "ok")
            /\ call' = Held("search", k)
            /\ UNCHANGED <<pvs, snapshots, tag_groups, next_uuid, assigned, remote,
                           meta_pvs, _tag_cache, _last_tag_fetch, now>>

\* pv.<field> = value, and no call on the back end.
HandleSetField ==
    /\ call.fn = "handle"
    /\ \E fv \in FieldValues :
           /\ pvs' = set_field(pvs, call.ref, fv[1], fv[2])
           /\ last' = Called("set_field", -1, -1, pvs[call.ref], "ok")
           /\ UNCHANGED <<snapshots, tag_groups, next_uuid, assigned, call, remote,
                          meta_pvs, _tag_cache, _last_tag_fetch, now>>

NextHandle ==
    \/ HandleAddPv
    \/ HandleGetAllPvs
    \/ HandleSearch
    \/ HandleSetField

SpecHandle == Init /\ [][NextHandle]_vars

(***************************************************************************)
(* The CSV import dialog: import_data hands the rows read from the file to *)
(* _import_rows, which builds one PV per row and sends them all to the     *)
(* back end in one add_multiple_pvs call.  The remote store rejects a      *)
(* request holding a PV with neither address; what it keeps of such a      *)
(* request, nothing or the PVs before the rejected one, is its choice.     *)
(***************************************************************************)
MaxRows == 3

\* (Setpoint, Readback) of the rows of the file.
SampleRows == { <<<<"a">>, <<>>>>, <<<<>>, <<"b">>>>, <<<<>>, <<>>>> }

Accepted(row) == row[1] # <<>> \/ row[2] # <<>>

\* CSVTableDialog._create_parameter_from_row(row_data), with no tag groups defined
_create_parameter_from_row(row_data, n) ==
    WithAddresses(PV(uuid4(n), <<>>, PyDict(EmptyDict), 0), row_data[1], row_data[2])

\* POST /v1/pvs/multi: one document per PV of the body, or an error status.
RECURSIVE post_each(_, _, _)
post_each(store, bodies, k) ==
    IF k = 0 THEN store ELSE ServerPost(post_each(store, bodies, k - 1), bodies[k]).store

ServerPostMulti(store, bodies, keeps_part) ==
    LET rejected == {k \in 1..Len(bodies) : /\ bodies[k]["setpointAddress"] = <<>>
                                            /\ bodies[k]["readbackAddress"] = <<>>}
    IN IF rejected = {} THEN [store |-> post_each(store, bodies, Len(bodies)), status |-> 200]
       ELSE [store |-> IF keeps_part THEN post_each(store, bodies, Min(rejected) - 1)
                       ELSE store,
             status |-> 422]

\* MongoBackend.add_multiple_pvs(pvs)
add_multiple_pvs(store, parameters, keeps_part) ==
    LET body == [k \in 1..Len(parameters) |->
                    add_pv_body(parameters[k].setpoint.val, parameters[k].readback.val,
                                parameters[k].description.val, <<>>, parameters[k].tags,
                                0, 0)]
        r == ServerPostMulti(store, body, keeps_part)
    IN [store |-> r.store, raised |-> _raise_for_status(r.status)]

\* CSVTableDialog._import_rows(rows_to_import): (success_count, error_count,
\* error_list) and the store afterwards; backend is None without a client.
_import_rows(store, rows_to_import, backend, keeps_part) ==
    LET parameters == [k \in 1..Len(rows_to_import) |->
                          _create_parameter_from_row(rows_to_import[k], k)]
    IN IF backend = PyNone
       THEN [store |-> store, success_count |-> 0, error_count |-> Len(rows_to_import),
             errors |-> <<"No client connection available">>]
       ELSE LET r == add_multiple_pvs(store, parameters, keeps_part)
            IN IF r.raised # "none"
               THEN [store |-> r.store, success_count |-> 0,
                     error_count |-> Len(rows_to_import), errors |-> <<r.raised>>]
               ELSE [store |-> r.store, success_count |-> Len(rows_to_import),
                     error_count |-> 0, errors |-> <<>>]

InitImport ==
    /\ pvs = <<>>
    /\ snapshots = <<>>
    /\ tag_groups = EmptyDict
    /\ next_uuid = 0
    /\ last = NoLast
    /\ assigned = {}
    /\ remote = EmptyDict
    /\ _tag_cache = EmptyDict
    /\ _last_tag_fetch = 0 - Minute
    /\ now = 0
    /\ meta_pvs = <<>>
    /\ \E csv_data \in SeqsUpTo(SampleRows, MaxRows), keeps_part \in BOOLEAN,
          backend \in {PyNone, PyStr(<<"mongo">>)} :
           call = [fn |-> "import_data", pc |-> "call", csv_data |-> csv_data,
                   backend |-> backend, keeps_part |-> keeps_part, result |-> "pending"]

\* CSVTableDialog.import_data()
ImportData ==
    /\ call.fn = "import_data" /\ call.pc = "call"
    /\ IF call.csv_data = <<>>
       THEN /\ call' = [call EXCEPT !.pc = "done", !.result = "No data to import."]
            /\ remote' = remote
       ELSE LET r == _import_rows(remote, call.csv_data, call.backend, call.keeps_part)
            IN /\ call' = [call EXCEPT !.pc = "done",
                              !.result = [success_count |-> r.success_count,
                                          error_count |-> r.error_count,
                                          errors |-> r.errors]]
               /\ remote' = r.store
    /\ UNCHANGED <<pvs, snapshots, tag_groups, next_uuid, last, assigned, meta_pvs,
                   _tag_cache, _last_tag_fetch, now>>

NextImport == ImportData

SpecImport == InitImport /\ [][NextImport]_vars

(***************************************************************************)
(* get_snapshots of the in-memory back end, on a back end constructed with *)
(* some Snapshots.                                                         *)
(***************************************************************************)
MaxHeldSnapshots == 2

\* TestBackend.get_snapshots(uuid, title, tags): the list built, or the
\* exception that ends the comprehension.
test_get_snapshots(snaps, uuid, title, tags) ==
    LET wanted == IF tags = PyNone \/ DOMAIN tags.val = {} THEN EmptyDict ELSE tags.val
        \* s.uuid == s.uuid and title in s.title
        passes(snapshot) == snapshot.uuid = snapshot.uuid /\ re_search(title, snapshot.title.val)
        \* s.tags[key] for the first key of tags: Snapshot has no attribute tags
        raising == {k \in 1..Len(snaps) : passes(snaps[k]) /\ DOMAIN wanted # {}}
    IN IF raising # {} THEN [value |-> <<>>, raised |-> "AttributeError"]
       ELSE [value |-> SelectSeq(snaps, passes), raised |-> "none"]

InitGetSnapshots ==
    /\ pvs = <<>>
    /\ \E titles \in SeqsUpTo({<<"a">>, <<"b">>, <<"a", "b">>}, MaxHeldSnapshots) :
           /\ snapshots = [j \in 1..Len(titles) |-> Snapshot(uuid4(j), <<"a">>, titles[j])]
           /\ next_uuid = Len(titles) + 1
    /\ tag_groups = EmptyDict
    /\ last = NoLast
    /\ assigned = {}
    /\ remote = EmptyDict
    /\ _tag_cache = EmptyDict
    /\ _last_tag_fetch = 0 - Minute
    /\ now = 0
    /\ meta_pvs = <<>>
    /\ \E uuid \in {PyNone, PyUuid(uuid4(1)), PyUuid(uuid4(2)), PyUuid(UnsavedUuid)},
          title \in {<<>>, <<"a">>, <<"b">>}, tags \in {PyNone, PyDict(D1(0, {0}))} :
           call = [fn |-> "get_snapshots", pc |-> "call", uuid |-> uuid, title |-> title,
                   tags |-> tags, result |-> "pending"]

GetSnapshots ==
    /\ call.fn = "get_snapshots" /\ call.pc = "call"
    /\ call' = [call EXCEPT !.pc = "done",
                   !.result = test_get_snapshots(snapshots, call.uuid, call.title, call.tags)]
    /\ UNCHANGED <<pvs, snapshots, tag_groups, next_uuid, last, assigned, remote, meta_pvs,
                   _tag_cache, _last_tag_fetch, now>>

NextGetSnapshots == GetSnapshots

SpecGetSnapshots == InitGetSnapshots /\ [][NextGetSnapshots]_vars

(***************************************************************************)
(* Client.search with one isclose term, on a client whose back end is an   *)
(* in-memory back end constructed with some PVs.                           *)
(***************************************************************************)
MaxTolerance == 1
MaxTarget == 2

\* Client.search(*post) with self.backend a TestBackend: what the back end's
\* search yields for the terms handed to it.
client_search_on_test_backend(post) ==
    LET r == client_search(post)
    IN IF ~r.called THEN [yielded |-> <<>>, raised |-> r.raised]
       ELSE search(r.handed)

InitIsClose ==
    /\ \E values \in SeqsUpTo((0 - MaxTarget)..MaxTarget, MaxPVs) :
           /\ pvs = [i \in 1..Len(values) |->
                         PV(uuid4(i), <<"a">>, PyDict(EmptyDict), values[i])]
           /\ next_uuid = Len(values) + 1
    /\ snapshots = <<>>
    /\ tag_groups = EmptyDict
    /\ last = NoLast
    /\ assigned = {}
    /\ remote = EmptyDict
    /\ _tag_cache = EmptyDict
    /\ _last_tag_fetch = 0 - Minute
    /\ now = 0
    /\ meta_pvs = <<>>
    /\ \E target \in (0 - MaxTarget)..MaxTarget, rel_tol \in 0..MaxTolerance,
          abs_tol \in 0..MaxTolerance :
           call = [fn |-> "isclose_search", pc |-> "call",
                   post |-> <<Term("abs_tolerance", "isclose",
                                   IsClose(target, rel_tol, abs_tol))>>,
                   target |-> target, rel_tol |-> rel_tol, abs_tol |-> abs_tol,
                   result |-> "pending"]

IsCloseSearch ==
    /\ call.fn = "isclose_search" /\ call.pc = "call"
    /\ call' = [call EXCEPT !.pc = "done",
                            !.result = client_search_on_test_backend(call.post)]
    /\ UNCHANGED <<pvs, snapshots, tag_groups, next_uuid, last, assigned, remote, meta_pvs,
                   _tag_cache, _last_tag_fetch, now>>

NextIsClose == IsCloseSearch

SpecIsClose == InitIsClose /\ [][NextIsClose]_vars

(***************************************************************************)
(* Properties of search and compare.                                       *)
(***************************************************************************)
SearchDone == call.fn = "search" /\ call.pc = "done"
CompareDone == call.fn = "compare" /\ call.pc = "done"

\* A term holds of an entry: its class for entry_type, false for an attribute
\* the entry lacks, the comparison's truth otherwise.
TermSatisfied(entry, term) ==
    IF term.attr = "entry_type"
    THEN \/ (term.target.type = "type" /\ term.target.val = entry.cls)
         \/ (term.target.type = "tuple"
             /\ \E i \in 1..Len(term.target.val) : term.target.val[i].val = entry.cls)
    ELSE /\ term.attr \in DOMAIN entry
         /\ compare(term.op, entry[term.attr], term.target) = "True"

\* C1: a search that ends without an exception yields, in stored order, exactly
\* the stored PVs and Snapshots of which every term holds, a term on an attribute
\* the entry lacks not holding; with no terms it yields every stored entry.
C1_SearchYieldsExactlyTheMatches ==
    (SearchDone /\ call.result.raised = "none") =>
        /\ call.result.yielded =
               SelectSeq(pvs \o snapshots,
                         LAMBDA e : \A k \in 1..Len(call.terms) :
                                        TermSatisfied(e, call.terms[k]))
        /\ (call.terms = <<>> => call.result.yielded = pvs \o snapshots)

\* A PV matches a term on title (which it lacks) and is left out, while the
\* Snapshot stored after it is yielded.
C1_Witness ==
    /\ SearchDone /\ call.result.raised = "none"
    /\ Len(pvs) = 1 /\ Len(snapshots) = 1
    /\ call.terms = <<Term("description", "eq", PyStr(<<"a">>)),
                      Term("title", "eq", PyStr(<<"a">>))>>
    /\ pvs[1].description = PyStr(<<"a">>)
    /\ call.result.yielded = snapshots

\* C2: a search on the single term ('tags', 'gt', T) over PVs that all carry a
\* TagSet yields exactly the PVs whose tags contain, for every group of T, all of
\* T's tags for that group (a group the PV lacks counting as empty); with PVs
\* tagged {0:{0}} and {0:{0,1}}, T = {0:{0}} yields both and T = {0:{0,1}} only
\* the second.
C2_TagsGtIsSuperset ==
    (/\ SearchDone /\ call.result.raised = "none"
     /\ Len(call.terms) = 1
     /\ call.terms[1].attr = "tags" /\ call.terms[1].op = "gt"
     /\ call.terms[1].target.type = "dict") =>
        LET T == call.terms[1].target.val
            Has(pv) == \A g \in DOMAIN T :
                           T[g] \subseteq (IF g \in DOMAIN pv.tags.val
                                           THEN pv.tags.val[g] ELSE {})
        IN /\ call.result.yielded = SelectSeq(pvs, Has)
           /\ (/\ Len(pvs) = 2
               /\ pvs[1].tags = PyDict(D1(0, {0}))
               /\ pvs[2].tags = PyDict(D1(0, {0, 1}))) =>
                  /\ T = D1(0, {0}) => call.result.yielded = pvs
                  /\ T = D1(0, {0, 1}) => call.result.yielded = <<pvs[2]>>

\* The scenario's second search: only the PV tagged {0:{0,1}} is returned.
C2_Witness ==
    /\ SearchDone /\ call.result.raised = "none"
    /\ call.terms = <<Term("tags", "gt", PyDict(D1(0, {0, 1})))>>
    /\ Len(pvs) = 2
    /\ pvs[1].tags = PyDict(D1(0, {0}))
    /\ pvs[2].tags = PyDict(D1(0, {0, 1}))
    /\ call.result.yielded = <<pvs[2]>>

\* C3: on TagSets, compare('gt', a, b) equals compare('lt', b, a), whatever the
\* group keys of a and b.
C3_GtMirrorsLt ==
    (/\ CompareDone /\ call.op = "gt"
     /\ call.data.type = "dict" /\ call.target.type = "dict") =>
        call.result = compare("lt", call.target, call.data)

\* a and b have different group keys and a contains b.
C3_Witness ==
    /\ CompareDone /\ call.op = "gt"
    /\ call.data.type = "dict" /\ call.target.type = "dict"
    /\ DOMAIN call.data.val = {0, 1} /\ DOMAIN call.target.val = {1}
    /\ call.target.val[1] = {0}
    /\ call.result = "True"

\* C11: a search with a term whose operator is none of eq, lt, gt, in, like
\* ends with ValueError, whatever is stored and whatever attribute is named.
C11_UnsupportedOperatorRaises ==
    (/\ SearchDone
     /\ \E k \in 1..Len(call.terms) : call.terms[k].op \notin Ops) =>
        call.result.raised = "ValueError"

\* The data of an entry's attribute and the term's target do not fit the term's
\* operator: an ordering of a TagSet against something that is no mapping, or
\* a pattern match against something that is no text.
WrongShape(entry, term) ==
    /\ term.attr # "entry_type"
    /\ HasAttr(entry, term.attr)
    /\ \/ /\ term.op \in {"lt", "gt"}
          /\ entry[term.attr].type = "dict"
          /\ term.target.type # "dict"
       \/ /\ term.op = "like"
          /\ term.target.type # "str"

\* C12: a search whose operators are all supported, and in which the target of
\* some term has the wrong shape for the data of a stored entry, ends with
\* TypeError; it never counts the term as not satisfied.
C12_WrongShapeRaisesTypeError ==
    (/\ SearchDone
     /\ \A k \in 1..Len(call.terms) : call.terms[k].op \in Ops
     /\ \E k \in 1..Len(call.terms), i \in 1..Len(pvs \o snapshots) :
            WrongShape((pvs \o snapshots)[i], call.terms[k])) =>
        call.result.raised = "TypeError"

\* C13: in the in-memory back end a term on 'ancestor' removes nothing: the
\* search yields what it yields without its ancestor terms.
C13_AncestorIsNoOp ==
    SearchDone =>
        LET others == SelectSeq(call.terms, LAMBDA t : t.attr # "ancestor")
        IN call.result = search(others)

MongoSearchDone == call.fn = "mongo_search" /\ call.pc = "done"

\* The elements of a sequence.
Range(seq) == {seq[i] : i \in 1..Len(seq)}

\* C14: a search of the remote back end that ends without an exception returns
\* exactly the stored PVs and Snapshots of which every term holds (a term on
\* 'ancestor' holding of every entry); so without an entry_type term the
\* matching entries are returned, and with the target (Snapshot, PV) entries of
\* both kinds are.
C14_MongoSearchHonorsContract ==
    (MongoSearchDone /\ call.result.raised = "none") =>
        Range(call.result.yielded) =
            {e \in Range(pvs \o snapshots) :
                \A k \in 1..Len(call.terms) :
                    \/ call.terms[k].attr = "ancestor"
                    \/ TermSatisfied(e, call.terms[k])}

ClientSearchDone == call.fn = "client_search" /\ call.pc = "done"

\* The number of isclose terms among the first n terms.
IsCloseBefore(post, n) == Cardinality({j \in 1..n : post[j].op = "isclose"})

\* C15: of the terms Client.search hands to the back end, an isclose term
\* (attr, 'isclose', (target, rel_tol, abs_tol)) has become a gt term on
\* target - target*rel_tol - abs_tol followed by an lt term on
\* target + target*rel_tol + abs_tol, both on attr; every other term stands
\* unchanged at its place among them; no handed term has the operator isclose.
C15_IsCloseBecomesGtLt ==
    (ClientSearchDone /\ call.result.called) =>
        LET post == call.post
            handed == call.result.handed
        IN /\ Len(handed) = Len(post) + IsCloseBefore(post, Len(post))
           /\ \A k \in 1..Len(handed) : handed[k].op # "isclose"
           /\ \A i \in 1..Len(post) :
                  LET at == i + IsCloseBefore(post, i - 1)
                  IN IF post[i].op = "isclose"
                     THEN LET t == post[i].target.val[1].val
                              rel == post[i].target.val[2].val
                              abs == post[i].target.val[3].val
                          IN /\ handed[at] = Term(post[i].attr, "gt",
                                                  PyInt(t - t * rel - abs))
                             /\ handed[at + 1] = Term(post[i].attr, "lt",
                                                      PyInt(t + t * rel + abs))
                     ELSE handed[at] = post[i]

\* An isclose term with a relative tolerance, followed by an ordinary term, has
\* been handed to the back end as three terms.
C15_Witness ==
    /\ ClientSearchDone /\ call.result.called
    /\ call.post = <<Term("abs_tolerance", "isclose", IsClose(2, 1, 1)),
                     Term("description", "like", PyStr(<<"a">>))>>
    /\ Len(call.result.handed) = 3
    /\ call.result.handed[1].target = PyInt(-1)
    /\ call.result.handed[2].target = PyInt(5)

SnapDone == call.fn = "snap" /\ call.pc = "done"

\* What the snapshot must hold for an address: nothing new for no address, the
\* value read if the read succeeded, absent data if it failed.
Captured(address, before, live) ==
    IF address = <<>> THEN before
    ELSE IF live[address] = "ok" THEN EpicsData(PyStr(address))
    ELSE EpicsData(PyNone)

SomePutFailed(c) == \E k \in 1..Len(c.puts) : c.puts[k].exception # PyNone

\* C17: apply(snapshot, sequential=True) issues its writes one at a time, the
\* k-th write being that of the k-th PV of the Snapshot that has a setpoint and
\* data; once a write has failed no write is issued, the call has ended and has
\* returned None; so when the second of three writes fails exactly two writes
\* have been issued.
C17_SequentialApplyStopsAtFirstFailure ==
    [][(/\ call'.fn = "apply" /\ call'.sequential
        /\ "cls" \in DOMAIN call'.entry /\ call'.entry.cls = "Snapshot") =>
           LET writes == SelectSeq(call'.entry.pvs.val,
                                   LAMBDA pv : /\ pv.setpoint.val # <<>>
                                               /\ pv.setpoint_data # PyNone)
           IN /\ Len(call'.puts) <= Len(call.puts) + 1
              /\ Len(call'.puts) <= Len(writes)
              /\ \A k \in 1..Len(call'.puts) :
                     /\ call'.puts[k].address = writes[k].setpoint.val
                     /\ call'.puts[k].value = writes[k].setpoint_data.val
              /\ SomePutFailed(call) => call'.puts = call.puts
              /\ SomePutFailed(call') =>
                     /\ call'.pc = "done"
                     /\ call'.result = PyNone
                     /\ call'.puts[Len(call'.puts)].exception # PyNone
              /\ (call'.pc = "done" /\ ~SomePutFailed(call')) =>
                     /\ Len(call'.puts) = Len(writes)
                     /\ call'.result = PyList(call'.puts)]_vars

\* Three writes were due, the second failed, and the call has ended after two.
C17_Witness ==
    /\ call.fn = "apply" /\ call.sequential /\ call.pc = "done"
    /\ Len(call.setpoints) = 3
    /\ Len(call.puts) = 2
    /\ call.puts[1].exception = PyNone
    /\ call.puts[2].exception # PyNone
    /\ call.result = PyNone

\* C18: after archive_pv of a PV, get_all_pvs() no longer lists it, and a
\* Snapshot stored before, fetched again, still holds every value it captured:
\* some PV of it carries the value's address with the value's data.
C18_ArchiveKeepsSnapshotData ==
    (last.op = "archive_pv" /\ last.result = "ok" /\ call.pc = "done") =>
        /\ call.fn = "get_all_pvs" =>
               \A k \in 1..Len(call.result.value) :
                   call.result.value[k].uuid # PyUuid(uuid4(last.pv_id))
        /\ (call.fn = "get_snapshots" /\ call.result.raised = "none") =>
               LET got == call.result.value[1].pvs.val
                   data == snapshots[call.uuid].data
               IN \A j \in 1..Len(data) :
                      \E k \in 1..Len(got) :
                          \/ /\ got[k].setpoint.val = data[j].pvName
                             /\ got[k].setpoint_data = EpicsData(data[j].data)
                          \/ /\ got[k].readback.val = data[j].pvName
                             /\ got[k].readback_data = EpicsData(data[j].data)

\* C19: a get_tags() made no more than one minute after the last fetch issues
\* no request and returns the cached definition; a get_tags() made later than
\* that issues requests and, when they are answered, returns the definition
\* the store holds and caches it.
C19_TagCacheLastsOneMinute ==
    [][call'.fn = "get_tags" =>
          IF now - _last_tag_fetch <= Minute
          THEN /\ call'.requests = 0
               /\ call'.value = _tag_cache
               /\ _tag_cache' = _tag_cache
               /\ _last_tag_fetch' = _last_tag_fetch
          ELSE /\ call'.requests >= 1
               /\ _last_tag_fetch' = now'
               /\ call'.all_ok => (call'.value = tag_groups /\ _tag_cache' = tag_groups)]_vars

\* A call made after the minute has replaced a cached definition that was not
\* empty by a fresh one.
C19_Witness ==
    /\ call.fn = "get_tags" /\ call.requests >= 1 /\ call.all_ok
    /\ call.before # EmptyDict
    /\ call.value # call.before
    /\ call.value = tag_groups

\* C20: an operation whose request is answered with an error status raises
\* BackendError; get_tags() in particular raises instead of returning or caching
\* a definition that lacks what the failed requests would have delivered.
C20_FailedRequestRaisesBackendError ==
    /\ (call.fn = "get_tags" /\ ~call.all_ok) => call.raised = "BackendError"
    /\ (last.op = "add_tag_group" /\ last.status >= 400) => last.result = "BackendError"

RoundTripDone == call.fn = "round_trip" /\ call.pc = "done"

\* C21: a TagSet whose tags the tag definition holds, packed with _pack_tags and
\* unpacked with _unpack_tags, is the same TagSet; a Snapshot packed with
\* _pack_snapshot, stored and unpacked with _unpack_snapshot has the same PVs,
\* in order, with the same setpoint and readback addresses and values.
C21_WireRoundTripIsLossless ==
    RoundTripDone =>
        /\ call.result.tags = PyDict(call.tags)
        /\ LET sent == call.snapshot.pvs.val
               got == call.result.snapshot.pvs.val
           IN /\ Len(got) = Len(sent)
              /\ \A k \in 1..Len(sent) :
                     /\ got[k].setpoint = sent[k].setpoint
                     /\ got[k].readback = sent[k].readback
                     /\ got[k].setpoint_data = sent[k].setpoint_data
                     /\ got[k].readback_data = sent[k].readback_data

\* C22: while the caller holds the TagDef that get_tags() returned and changes it
\* (a group's tag mapping replaced, a group renamed, a tag added), with no
\* set_tags and no mutator called, a later get_tags() returns what the first
\* one returned.
C22_TagDefIsAWorkingCopy ==
    (call.fn = "get_tags" /\ call.pc = "held") => call.later = call.returned

\* C23: a field of a PV object obtained from add_pv, get_all_pvs or search,
\* changed by the caller with no call on the back end, leaves the stored PVs,
\* which later get_all_pvs() and search() return, as they were.
C23_FieldMutationDoesNotPersist ==
    [][last'.op = "set_field" => pvs' = pvs]_vars

\* C24: the Snapshot snap() returns has in pvs exactly one entry per PV of
\* get_all_pvs(), and has the meta PVs of get_meta_pvs(), with the values
\* captured for them, in meta_pvs and not in pvs.
C24_SnapKeepsMetaPVsApart ==
    SnapDone =>
        LET got == call.result
        IN /\ Len(got.pvs.val) = Len(pvs)
           /\ Len(got.meta_pvs.val) = Len(meta_pvs)
           /\ \A k \in 1..Len(meta_pvs) :
                  /\ got.meta_pvs.val[k].uuid = meta_pvs[k].uuid
                  /\ got.meta_pvs.val[k].readback_data =
                         Captured(meta_pvs[k].readback.val, meta_pvs[k].readback_data,
                                  call.live)
                  /\ \A i \in 1..Len(got.pvs.val) : got.pvs.val[i].uuid # meta_pvs[k].uuid

\* C25: an import of rows through a connected client adds every row the store
\* accepts, whatever rows around it are rejected; the error list is empty only
\* if no row was rejected; the success and error counts reported are the
\* numbers of rows added and rejected.
C25_ImportGoesOnAfterAFailingRow ==
    (/\ call.fn = "import_data" /\ call.pc = "done"
     /\ call.csv_data # <<>> /\ call.backend # PyNone) =>
        LET rows == call.csv_data
            good == {k \in 1..Len(rows) : Accepted(rows[k])}
            bad == {k \in 1..Len(rows) : ~Accepted(rows[k])}
        IN /\ Cardinality(DOMAIN remote) = Cardinality(good)
           /\ call.result.success_count = Cardinality(DOMAIN remote)
           /\ call.result.error_count = Cardinality(bad)
           /\ (call.result.errors = <<>>) <=> (bad = {})

\* C26: whatever PVs and Snapshots are stored, search with the single term
\* ("tags", "gt", {}) yields exactly what search with no terms yields.
C26_EmptyTagFilterMatchesEverything ==
    (SearchDone /\ call.terms = <<Term("tags", "gt", PyDict(EmptyDict))>>) =>
        call.result = search(<<>>)

\* C28: a get_tags() that follows a successful add_tag_group on the same back
\* end, with its requests (if it makes any) answered, returns the definition
\* the store now holds, however short the time since the last fetch.
C28_GetTagsReadsOwnWrites ==
    [][(/\ call'.fn = "get_tags" /\ call'.all_ok
        /\ last.op = "add_tag_group" /\ last.result = "ok")
       => call'.value = tag_groups]_vars

\* C29: get_snapshots(uuid=u, ...) of the in-memory back end returns the
\* Snapshots whose uuid is u and no other, whatever title and tags are passed
\* along.
C29_GetSnapshotsByUuidReturnsThatOne ==
    (/\ call.fn = "get_snapshots" /\ call.pc = "done" /\ call.uuid # PyNone) =>
        /\ call.result.raised = "none"
        /\ call.result.value = SelectSeq(snapshots, LAMBDA snapshot : snapshot.uuid = call.uuid)

\* C30: Client.search with the term (attr, "isclose", (target, rel_tol,
\* abs_tol)), the tolerances not negative, yields every entry whose attribute
\* equals target, be target positive, zero or negative; with both tolerances
\* zero it yields those entries and no other.
C30_IsCloseMatchesTheTargetItself ==
    (call.fn = "isclose_search" /\ call.pc = "done") =>
        LET equal == SelectSeq(pvs, LAMBDA pv : pv.abs_tolerance.val = call.target)
            yielded == call.result.yielded
        IN /\ call.result.raised = "none"
           /\ \A k \in 1..Len(equal) : \E i \in 1..Len(yielded) : yielded[i] = equal[k]
           /\ (call.rel_tol = 0 /\ call.abs_tol = 0) => yielded = equal

(***************************************************************************)
(* Properties of the in-memory back end's tag definition.                  *)
(***************************************************************************)
\* The tag ids a group of the definition holds: the keys of its tag mapping.
TagIdsOf(groups, g) ==
    IF g \notin DOMAIN groups THEN {}
    ELSE UNION {DOMAIN groups[g][i].val :
                    i \in {j \in 1..Len(groups[g]) : groups[g][j].type = "dict"}}

\* C4: every tag id in a stored PV's TagSet exists in the group of that id in
\* the current tag definition.
C4_PvTagsExistInTagDef ==
    \A i \in 1..Len(pvs) :
        pvs[i].tags.type = "dict" =>
            \A g \in DOMAIN pvs[i].tags.val :
                pvs[i].tags.val[g] \subseteq TagIdsOf(tag_groups, g)

\* C5: add_tag_group never hands out a group id it has handed out before.
C5_GroupIdsNeverReassigned ==
    [][(last'.op = "add_tag_group" /\ last'.result = "ok") => last'.gid \notin assigned]_vars

\* C6: add_tag_group creates and returns the group id max + 1 (0 when there is
\* no group), add_tag_to_group creates the tag id max + 1 within the group (0
\* when the group has no tag), and the id was not in use in its scope.
C6_NewIdIsMaxPlusOne ==
    [][/\ (last'.op = "add_tag_group" /\ last'.result = "ok") =>
              /\ last'.gid = (IF DOMAIN tag_groups = {} THEN 0
                              ELSE Max(DOMAIN tag_groups) + 1)
              /\ last'.gid \notin DOMAIN tag_groups
              /\ DOMAIN tag_groups' = (DOMAIN tag_groups) \cup {last'.gid}
       /\ (last'.op = "add_tag_to_group" /\ last'.result = "ok") =>
              LET old == TagIdsOf(tag_groups, last'.gid)
                  new == TagIdsOf(tag_groups', last'.gid)
              IN /\ last'.tid = (IF old = {} THEN 0 ELSE Max(old) + 1)
                 /\ last'.tid \notin old
                 /\ new = old \cup {last'.tid}
      ]_vars

\* The second group's second tag has just been created, as tag 1 of group 1.
C6_Witness ==
    /\ last.op = "add_tag_to_group" /\ last.result = "ok"
    /\ last.gid = 1 /\ last.tid = 1
    /\ DOMAIN tag_groups = {0, 1}
    /\ TagIdsOf(tag_groups, 1) = {0, 1}

\* C7: update_tag_group and update_tag_in_group keep the group ids, every
\* group's tag ids, every other group, every other tag's name and every stored
\* PV; update_tag_in_group also keeps its own group's name and description.
C7_RenameKeepsReferences ==
    [][(last'.op \in {"update_tag_group", "update_tag_in_group"}) =>
          /\ pvs' = pvs
          /\ DOMAIN tag_groups' = DOMAIN tag_groups
          /\ \A g \in DOMAIN tag_groups :
                 /\ TagIdsOf(tag_groups', g) = TagIdsOf(tag_groups, g)
                 /\ Len(tag_groups'[g]) = Len(tag_groups[g])
                 /\ (g # last'.gid \/ last'.result # "ok") => tag_groups'[g] = tag_groups[g]
          /\ (last'.result = "ok" /\ last'.op = "update_tag_group") =>
                 tag_groups'[last'.gid][3] = tag_groups[last'.gid][3]
          /\ (last'.result = "ok" /\ last'.op = "update_tag_in_group") =>
                 /\ tag_groups'[last'.gid][1] = tag_groups[last'.gid][1]
                 /\ tag_groups'[last'.gid][2] = tag_groups[last'.gid][2]
                 /\ \A t \in TagIdsOf(tag_groups, last'.gid) \ {last'.tid} :
                        tag_groups'[last'.gid][3].val[t] = tag_groups[last'.gid][3].val[t]
      ]_vars

\* Group 0 has been renamed while it holds a tag that a stored PV refers to.
C7_Witness ==
    /\ last.op = "update_tag_group" /\ last.result = "ok" /\ last.gid = 0
    /\ tag_groups[0][1] = PyStr(<<"b">>)
    /\ TagIdsOf(tag_groups, 0) = {0}
    /\ Len(pvs) = 1 /\ pvs[1].tags = PyDict(D1(0, {0}))

(***************************************************************************)
(* Properties of the entry methods.                                        *)
(***************************************************************************)
\* The stored entries with the identity of e.
StoredAs(entries, e) == {i \in 1..Len(entries) : entries[i].uuid = e.uuid}

\* get_entry(e.uuid) returns an entry equal to e.
GetReturns(e) ==
    /\ get_entry(e.uuid).raised = "none"
    /\ get_entry(e.uuid).value.cls = e.cls
    /\ get_entry(e.uuid).value = e

\* C8: save_entry of an entry whose identity is not stored succeeds and
\* get_entry then returns an equal entry; with the identity stored already it
\* raises EntryExistsError and the stored entries stay as they were.
C8_SaveEntryInsertsOrRejects ==
    [][last'.op = "save_entry" =>
          IF StoredAs(pvs \o snapshots, last'.entry) # {}
          THEN /\ last'.result = "EntryExistsError"
               /\ pvs' = pvs /\ snapshots' = snapshots
          ELSE /\ last'.result = "ok"
               /\ GetReturns(last'.entry)
      ]_vars

\* C9: delete_entry of a copy that differs from the stored entry raises
\* BackendError and the stored entry stays retrievable; delete_entry of an equal
\* copy removes the entry, and get_entry then raises EntryNotFoundError.
C9_DeleteEntryChecksData ==
    [][last'.op = "delete_entry" =>
          \A i \in StoredAs(pvs \o snapshots, last'.entry) :
              LET stored == (pvs \o snapshots)[i]
              IN IF stored.description # last'.entry.description
                 THEN /\ last'.result = "BackendError"
                      /\ pvs' = pvs /\ snapshots' = snapshots
                      /\ GetReturns(stored)
                 ELSE /\ last'.result = "ok"
                      /\ StoredAs(pvs' \o snapshots', last'.entry) = {}
                      /\ get_entry(stored.uuid).raised = "EntryNotFoundError"
      ]_vars

\* C27: delete_tag_from_group(group_id, tag_id) on a group holding the tag
\* removes that tag from the group's tags and leaves the group's name, its
\* description, its other tags and every other group as they were.
C27_DeleteTagRemovesOnlyThatTag ==
    [][(/\ last'.op = "delete_tag_from_group"
        /\ last'.gid \in DOMAIN tag_groups
        /\ Len(tag_groups[last'.gid]) = 3
        /\ last'.tid \in DOMAIN tag_groups[last'.gid][3].val)
       => tag_groups' = Put(tag_groups, last'.gid,
                            [tag_groups[last'.gid] EXCEPT
                                ![3] = PyDict(Remove(@.val, last'.tid))])]_vars

====
